---- MODULE Spec2Model ----
(***************************************************************************)
(* Rendez-vous seeker: page classification (page_detector.py), session     *)
(* rotation counters (utils.py) and the monitoring state machine           *)
(* (monitor/core.py with its handlers).                                    *)
(*                                                                         *)
(* Text.  A Python str is modelled as a sequence of atoms.  An atom is a   *)
(* fragment of text that is never split: "indisponible" is the two atoms   *)
(* "in","disponible", so that the substring test finds "disponible" inside *)
(* it exactly as Python's `in` does.  Atoms that carry capitals have a     *)
(* lower-case form, given by LowerAtom.                                    *)
(***************************************************************************)
EXTENDS Integers, Sequences, FiniteSets, TLC

VARIABLES
    state,            \* RDVMonitor.state (MonitorState value)
    running,          \* RDVMonitor.running
    request_count,    \* AntiDetectionUtils.request_count
    session_expired,  \* time.time() - session_start_time > 3600
    enable_session_rotation,  \* config.anti_detection.enable_session_rotation
    enable_random_delays,     \* config.anti_detection.enable_random_delays
    mgr_driver,       \* DriverManager.driver
    loop_driver,      \* the local `driver` of start() / _monitoring_loop
    quit_handles,     \* browser handles on which quit() has been called
    pc,               \* position of the control flow
    browser,          \* what the browser shows in this cycle, and which calls fail
    page_info,        \* result of page_detector.get_page_info in this cycle
    detected,         \* result of page_detector.detect_page_type
    availability,     \* result of AvailabilityHandler.check_availability
    rotate_result,    \* the last should_rotate_session call: its number since the last
                      \* reset, whether the hour had passed, whether an earlier call
                      \* since that reset returned true, and what it returned
    calls_since_reset,\* should_rotate_session calls since the last reset_session
    state_at_entry,   \* RDVMonitor.state when _process_current_page was entered
    events,           \* notifications and log events emitted in this cycle
    slept,            \* delays applied in this cycle (seconds; "jitter" for the random one)
    last_page,        \* the page observed most recently, its digest, and how it was seen
    digest_status,    \* how that digest compares with the one of the page observed
                      \* before it: "changed", "unchanged", or "unknown" when one is missing
    user_agents,      \* config.chrome.user_agents
    enable_user_agent_rotation,  \* config.anti_detection.enable_user_agent_rotation
    current_user_agent_index,    \* AntiDetectionUtils.current_user_agent_index
    user_agents_given \* what the get_next_user_agent calls made on their own returned

vars == <<state, running, request_count, session_expired, enable_session_rotation,
          enable_random_delays, mgr_driver, loop_driver, quit_handles, pc, browser,
          page_info, detected, availability, rotate_result, calls_since_reset,
          state_at_entry, events, slept, last_page, digest_status, user_agents,
          enable_user_agent_rotation, current_user_agent_index, user_agents_given>>

\* The digest bookkeeping.
digest_vars == <<last_page, digest_status>>

\* The user agent pool and the rotation over it.
identity_vars ==
    <<user_agents, enable_user_agent_rotation, current_user_agent_index,
      user_agents_given>>

-----------------------------------------------------------------------------
(* Bounds of the model. *)

\* Longest page title, in phrases of TitlePhrases, of the classifier inputs.
MaxTitlePhrases == 1
\* Longest page source, in phrases of ContentPhrases, of the classifier inputs.
MaxContentPhrases == 2
\* session_rotation_interval used by the model (config.py sets 50).
RotationInterval == 3
\* Cap on request_count (it grows without bound when rotations keep failing).
MaxRequests == 5
\* The longest pool of user agents.
MaxPool == 3
\* The most calls of get_next_user_agent followed.
MaxAgentCalls == 5
\* The longest page content given to the digest, in tokens.
MaxDigestTokens == 3
\* The most cycles of the digest-watching loop followed.
MaxWatchCycles == 5

-----------------------------------------------------------------------------
(* Python str operations. *)

\* `sub in s`
Contains(s, sub) ==
    \E i \in 1..(Len(s) - Len(sub) + 1) : SubSeq(s, i, i + Len(sub) - 1) = sub

LowerAtom(a) ==
    CASE a = "Constituez votre dossier" -> "constituez votre dossier"
      [] a = "Choisissez votre "        -> "choisissez votre "
      [] a = "Accueil"                  -> "accueil"
      [] a = "Connexion"                -> "connexion"
      [] a = "Préfecture"               -> "préfecture"
      [] a = "Aucun "                   -> "aucun "
      [] a = "Cloudflare"               -> "cloudflare"
      [] a = "Error"                    -> "error"
      [] OTHER                          -> a

\* str.lower()
lower(s) == [i \in DOMAIN s |-> LowerAtom(s[i])]

-----------------------------------------------------------------------------
(* PageDetector.__init__: the indicator lists. *)

blocked_indicators ==
    << <<"cloudflare">>, <<"attention required">>, <<"sorry, you have been blocked">>,
       <<"you are unable to access">>, <<"security service">>, <<"cf-wrapper">>,
       <<"cf-", "error", "-details">> >>

maintenance_indicators ==
    << <<"maintenance">>, <<"maintenance">>, <<"in", "disponible">>, <<"temporairement">>,
       <<"service ", "temporairement", " ", "in", "disponible">>,
       <<"maintenance", " en cours">> >>

error_indicators ==
    << <<"erreur">>, <<"error">>, <<"page not found">>, <<"404">>, <<"500">>, <<"503">>,
       <<"service ", "un", "available">> >>

loading_indicators ==
    << <<"chargement">>, <<"loading">>, <<"veuillez patienter">>, <<"please wait">> >>

availability_indicators ==
    << <<"disponible">>, <<"available">>, <<"libre">>, <<"free">>, <<"réserver">>,
       <<"reserve">>, <<"choisir">>, <<"select">>, <<"creneau">>, <<"slot">>,
       <<"rendez-vous">>, <<"appointment">>, <<"horaire">>, <<"schedule">>,
       <<"place", "r">>, <<"place">> >>

login_indicators ==
    << <<"connexion">>, <<"login">>, <<"se connecter">>, <<"identifiant">>,
       <<"mot de passe">>, <<"password">> >>

captcha_indicators ==
    << <<"captcha">>, <<"code de sécurité">>, <<"recopier le code">>,
       <<"captcha", "formulaireextinput">>, <<"captcha", "id">>,
       <<"captcha", "usercode">> >>

initial_indicators ==
    << <<"que souhaitez-vous faire">>, <<"prendre un ", "rendez-vous">>,
       <<"gérer mes ", "rendez-vous">>, <<"étape 1 sur 6">> >>

\* The title markers and the "no slot" phrase, as the code spells them.
CaptchaTitle == <<"constituez votre dossier">>
AppointmentTitle == <<"choisissez votre ", "créneau">>
InitialTitle == <<"accueil">>
NoSlotPhrase == <<"aucun ", "créneau", " ", "disponible">>

\* for indicator in <list>: if indicator in page_source or indicator in page_title
AnyIndicator(indicators, page_source, page_title) ==
    \E i \in DOMAIN indicators :
        Contains(page_source, indicators[i]) \/ Contains(page_title, indicators[i])

_is_blocked(page_source, page_title) ==
    AnyIndicator(blocked_indicators, page_source, page_title)
_is_maintenance(page_source, page_title) ==
    AnyIndicator(maintenance_indicators, page_source, page_title)
_is_error(page_source, page_title) ==
    AnyIndicator(error_indicators, page_source, page_title)
_is_loading(page_source, page_title) ==
    AnyIndicator(loading_indicators, page_source, page_title)
_is_login_required(page_source, page_title) ==
    AnyIndicator(login_indicators, page_source, page_title)
_is_captcha(page_source, page_title) ==
    AnyIndicator(captcha_indicators, page_source, page_title)
_is_initial(page_source, page_title) ==
    AnyIndicator(initial_indicators, page_source, page_title)
_is_available(page_source, page_title) ==
    AnyIndicator(availability_indicators, page_source, page_title)

-----------------------------------------------------------------------------
(* The browser as the code sees it.  A driver value d is a record           *)
(*   title, page_source : what the browser shows,                          *)
(*   failing : the calls during which a browser read raises,               *)
(*   is_none : the value is Python's None (no driver).                     *)

Calls == {"detect_page_type", "get_page_info", "check_availability"}

\* What a Python call yields: a value, or an exception that leaves the call.
Returned(v) == [raised |-> FALSE, value |-> v]
Raised == [raised |-> TRUE, value |-> "exception"]

Detection(type, description) == [type |-> type, description |-> description]

\* The try block of detect_page_type raises when a browser read does.
DetectRaises(d) == "detect_page_type" \in d.failing

\* The CAPTCHA title test without .lower().
TitleIsCaptcha_case_sensitive(page_title) == Contains(page_title, CaptchaTitle)

\* "constituez votre dossier" in page_title.lower()
TitleIsCaptcha(page_title) == Contains(lower(page_title), CaptchaTitle)

\* The slot-picker title test without .lower().
TitleIsAppointment_case_sensitive(page_title) == Contains(page_title, AppointmentTitle)

\* "choisissez votre créneau" in page_title.lower()
TitleIsAppointment(page_title) == Contains(lower(page_title), AppointmentTitle)

\* "accueil" in page_title.lower()
TitleIsInitial(page_title) == Contains(lower(page_title), InitialTitle)

\* A last return that gives up instead of concluding "no slots".
DefaultDetection_unknown == Detection("unknown", "Unknown page")

\* The last return of detect_page_type: nothing matched.
DefaultDetection == Detection("unavailable", "Normal page - no available slots")

\* The content rules with the availability keywords tested first.
ContentRules_available_first(page_source, page_title) ==
    IF _is_available(page_source, page_title)
        THEN Detection("available", "Available slots detected")
    ELSE IF _is_blocked(page_source, page_title)
        THEN Detection("blocked", "Page blocked by Cloudflare")
    ELSE IF _is_maintenance(page_source, page_title)
        THEN Detection("maintenance", "Page in maintenance")
    ELSE IF _is_error(page_source, page_title)
        THEN Detection("error", "Error page")
    ELSE IF _is_loading(page_source, page_title)
        THEN Detection("loading", "Page loading")
    ELSE IF _is_login_required(page_source, page_title)
        THEN Detection("login_required", "Login required")
    ELSE DefaultDetection

\* The content rules with the login test moved in front of the blocked test.
ContentRules_login_first(page_source, page_title) ==
    IF _is_login_required(page_source, page_title)
        THEN Detection("login_required", "Login required")
    ELSE IF _is_blocked(page_source, page_title)
        THEN Detection("blocked", "Page blocked by Cloudflare")
    ELSE IF _is_maintenance(page_source, page_title)
        THEN Detection("maintenance", "Page in maintenance")
    ELSE IF _is_error(page_source, page_title)
        THEN Detection("error", "Error page")
    ELSE IF _is_loading(page_source, page_title)
        THEN Detection("loading", "Page loading")
    ELSE IF _is_available(page_source, page_title)
        THEN Detection("available", "Available slots detected")
    ELSE DefaultDetection

\* "THEN: Check by content": the tests after the title rules, first match wins.
ContentRules(page_source, page_title) ==
    IF _is_blocked(page_source, page_title)
        THEN Detection("blocked", "Page blocked by Cloudflare")
    ELSE IF _is_maintenance(page_source, page_title)
        THEN Detection("maintenance", "Page in maintenance")
    ELSE IF _is_error(page_source, page_title)
        THEN Detection("error", "Error page")
    ELSE IF _is_loading(page_source, page_title)
        THEN Detection("loading", "Page loading")
    ELSE IF _is_login_required(page_source, page_title)
        THEN Detection("login_required", "Login required")
    ELSE IF _is_available(page_source, page_title)
        THEN Detection("available", "Available slots detected")
    ELSE DefaultDetection

\* The try block of detect_page_type: "FIRST: Check by title", with the CAPTCHA
\* content check as backup, then the content rules.
DetectBody(d) ==
    IF TitleIsCaptcha(d.title)
        THEN Detection("captcha", "Page with captcha - manual intervention required")
    ELSE IF _is_captcha(lower(d.page_source), lower(d.title))
        THEN Detection("captcha", "Page with captcha - manual intervention required")
    ELSE IF TitleIsAppointment(d.title)
        THEN Detection("unavailable", "Appointment page - monitoring for available slots")
    ELSE IF TitleIsInitial(d.title)
        THEN Detection("initial", "Initial page - click on 'Prendre un rendez-vous'")
    ELSE ContentRules(lower(d.page_source), lower(d.title))

\* detect_page_type without its except clause: the failure leaves the call.
detect_page_type_no_except(d) ==
    IF DetectRaises(d) THEN Raised
    ELSE Returned(DetectBody(d))

\* detect_page_type: the try block, and `except Exception` turning a failure
\* into (UNKNOWN, "Detection error: ...").
detect_page_type(d) ==
    IF DetectRaises(d) THEN Returned(Detection("unknown", "Detection error"))
    ELSE Returned(DetectBody(d))

\* The try block of get_page_info raises when detect_page_type does, or when
\* reading driver.title or driver.current_url for the info dict does.
PageInfoRaises(d) == detect_page_type(d).raised \/ "get_page_info" \in d.failing

\* The info dict built by the try block of get_page_info.
PageInfoBody(detection, d) ==
    [type |-> detection.type, description |-> detection.description, title |-> d.title]

\* get_page_info: `except Exception` returns the UNKNOWN dict with title "Error".
get_page_info(d) ==
    IF PageInfoRaises(d)
        THEN Returned([type |-> "unknown", description |-> "Error", title |-> <<"Error">>])
    ELSE Returned(PageInfoBody(detect_page_type(d).value, d))

\* AvailabilityHandler.check_availability.
check_availability(d) ==
    IF d.is_none THEN Returned(FALSE)
    ELSE IF "check_availability" \in d.failing THEN Returned(FALSE)
    ELSE IF Contains(lower(d.page_source), NoSlotPhrase) THEN Returned(FALSE)
    ELSE Returned(TRUE)

-----------------------------------------------------------------------------
(* AvailabilityHandler, CaptchaHandler, PageHandlers and the page-type     *)
(* handlers of RDVMonitor.  Each yields the new RDVMonitor.state, the      *)
(* events emitted, the handler's own sleeps and what check_availability    *)
(* returned when it was called.                                            *)

\* Whether check_availability was called in the cycle, and what it returned.
NotCalled == [called |-> FALSE, value |-> FALSE]
Called(v) == [called |-> TRUE, value |-> v]

Outcome(st, ev, sl, av) == [state |-> st, events |-> ev, slept |-> sl, avail |-> av]

\* handle_appointment_page_check: check_availability, and the alert when it is true.
handle_appointment_page_check(d) ==
    LET is_available == check_availability(d).value
    IN  [is_available |-> is_available,
         events |-> IF is_available THEN <<"AppointmentPageCheck", "SlotsAvailable">>
                    ELSE <<"AppointmentPageCheck">>]

\* _handle_captcha_page without the test of the state: it alerts every time.
_handle_captcha_page_always_alerts(st) ==
    Outcome("captcha_wait", <<"CaptchaDetected">>, <<>>, NotCalled)

_handle_captcha_page(st) ==
    IF st # "captcha_wait"
        THEN Outcome("captcha_wait", <<"CaptchaDetected">>, <<>>, NotCalled)
    ELSE Outcome(st, <<"CaptchaWaiting">>, <<>>, NotCalled)

\* _handle_initial_page that sets NAVIGATING whatever the click returned.
_handle_initial_page_always_navigates(st, click_ok) ==
    IF click_ok
        THEN Outcome("navigating", <<"NavigationAttempt", "NavigationClicked">>, <<>>,
                     NotCalled)
    ELSE Outcome("navigating", <<"NavigationAttempt">>, <<>>, NotCalled)

\* _handle_initial_page that clicks but forgets self.state = NAVIGATING.
_handle_initial_page_keeps_state(st, click_ok) ==
    IF click_ok
        THEN Outcome(st, <<"NavigationAttempt", "NavigationClicked">>, <<>>, NotCalled)
    ELSE Outcome(st, <<"NavigationAttempt">>, <<>>, NotCalled)

\* click_ok: what PageHandlers.handle_initial_page (_click_prendre_rdv_button) returns.
_handle_initial_page(st, click_ok) ==
    IF click_ok
        THEN Outcome("navigating", <<"NavigationAttempt", "NavigationClicked">>, <<>>,
                     NotCalled)
    ELSE Outcome(st, <<"NavigationAttempt">>, <<>>, NotCalled)

\* A _handle_available_page that reports the slots and sets AVAILABLE in every
\* state.
_handle_available_page_in_any_state(st, d, page_title) ==
    Outcome("available", <<"SlotsAvailable">>, <<>>, NotCalled)

\* _handle_available_page: the alert and AVAILABLE in MONITORING, the reminder
\* in AVAILABLE, a log line in every other state.
_handle_available_page(st, d, page_title) ==
    IF st = "monitoring"
        THEN Outcome("available", <<"SlotsAvailable">>, <<>>, NotCalled)
    ELSE IF st = "available"
        THEN IF Contains(lower(page_title), AppointmentTitle)
                THEN LET is_available == check_availability(d).value
                     IN  IF ~is_available
                            THEN Outcome("monitoring", <<"Reminder", "SlotsLost">>, <<>>,
                                         Called(is_available))
                         ELSE Outcome(st, <<"Reminder">>, <<>>, Called(is_available))
             ELSE Outcome(st, <<"Reminder">>, <<>>, NotCalled)
    ELSE Outcome(st, <<>>, <<>>, NotCalled)

\* _handle_unavailable_page that alerts but forgets self.state = AVAILABLE.
_handle_unavailable_page_keeps_state(st, d, page_title) ==
    IF st = "monitoring"
        THEN IF Contains(lower(page_title), AppointmentTitle)
                THEN LET c == handle_appointment_page_check(d)
                     IN  Outcome(st, c.events, <<>>, Called(c.is_available))
             ELSE Outcome(st, <<>>, <<>>, NotCalled)
    ELSE IF st = "navigating"
        THEN Outcome("monitoring", <<"NavigationComplete">>, <<>>, NotCalled)
    ELSE Outcome(st, <<>>, <<>>, NotCalled)

\* _handle_unavailable_page that reports every regular unavailable page seen in
\* MONITORING as a change of the page.
_handle_unavailable_page_reports_change(st, d, page_title) ==
    IF st = "monitoring"
        THEN IF Contains(lower(page_title), AppointmentTitle)
                THEN LET c == handle_appointment_page_check(d)
                     IN  IF c.is_available
                            THEN Outcome("available", c.events, <<>>, Called(c.is_available))
                         ELSE Outcome(st, c.events, <<>>, Called(c.is_available))
             ELSE Outcome(st, <<"ChangeDetected">>, <<>>, NotCalled)
    ELSE IF st = "navigating"
        THEN Outcome("monitoring", <<"NavigationComplete">>, <<>>, NotCalled)
    ELSE Outcome(st, <<>>, <<>>, NotCalled)

_handle_unavailable_page(st, d, page_title) ==
    IF st = "monitoring"
        THEN IF Contains(lower(page_title), AppointmentTitle)
                THEN LET c == handle_appointment_page_check(d)
                     IN  IF c.is_available
                            THEN Outcome("available", c.events, <<>>, Called(c.is_available))
                         ELSE Outcome(st, c.events, <<>>, Called(c.is_available))
             ELSE Outcome(st, <<>>, <<>>, NotCalled)
    ELSE IF st = "navigating"
        THEN Outcome("monitoring", <<"NavigationComplete">>, <<>>, NotCalled)
    ELSE Outcome(st, <<>>, <<>>, NotCalled)

\* _handle_page_type whose BLOCKED, MAINTENANCE, ERROR and LOADING branches return
\* without sleeping.
_handle_page_type_no_backoff(st, d, page_type, page_title, click_ok) ==
    CASE page_type \in {"blocked", "maintenance", "error", "loading"}
                                   -> Outcome(st, <<>>, <<>>, NotCalled)
      [] page_type = "captcha"     -> _handle_captcha_page(st)
      [] page_type = "initial"     -> _handle_initial_page(st, click_ok)
      [] page_type = "available"   -> _handle_available_page(st, d, page_title)
      [] page_type = "unavailable" -> _handle_unavailable_page(st, d, page_title)
      [] OTHER                     -> Outcome(st, <<"UnknownPage">>, <<>>, NotCalled)

_handle_page_type(st, d, page_type, page_title, click_ok) ==
    CASE page_type = "blocked"     -> Outcome(st, <<>>, <<30>>, NotCalled)
      [] page_type = "maintenance" -> Outcome(st, <<>>, <<60>>, NotCalled)
      [] page_type = "error"       -> Outcome(st, <<>>, <<45>>, NotCalled)
      [] page_type = "loading"     -> Outcome(st, <<>>, <<5>>, NotCalled)
      [] page_type = "captcha"     -> _handle_captcha_page(st)
      [] page_type = "initial"     -> _handle_initial_page(st, click_ok)
      [] page_type = "available"   -> _handle_available_page(st, d, page_title)
      [] page_type = "unavailable" -> _handle_unavailable_page(st, d, page_title)
      [] OTHER                     -> Outcome(st, <<"UnknownPage">>, <<>>, NotCalled)

\* A "captcha completed" test that never fires.
captcha_completed_never(st, page_type) == FALSE

\* _process_current_page, the "captcha completed" test: a page other than
\* CAPTCHA seen in CAPTCHA_WAIT sets the state to MONITORING.
captcha_completed(st, page_type) == st = "captcha_wait" /\ page_type # "captcha"

\* _process_current_page after get_page_info returned info: the "captcha
\* completed" test, then _handle_page_type on the state that test left.
_process_current_page(st, d, info, h) ==
    [state |-> h.state,
     events |-> (IF captcha_completed(st, info.type) THEN <<"CaptchaResolved">> ELSE <<>>)
                \o h.events,
     slept |-> h.slept, avail |-> h.avail]

-----------------------------------------------------------------------------
(* AntiDetectionUtils. *)

\* A should_rotate_session that counts a request in every call, before it
\* looks at the switch.
should_rotate_session_counts_every_call(enabled, rc, expired) ==
    IF ~enabled THEN [result |-> FALSE, request_count |-> rc + 1]
    ELSE [result |-> ((rc + 1) % RotationInterval = 0) \/ expired,
          request_count |-> rc + 1]

\* should_rotate_session: [result, request_count] for the counter value rc.
should_rotate_session(enabled, rc, expired) ==
    IF ~enabled THEN [result |-> FALSE, request_count |-> rc]
    ELSE [result |-> ((rc + 1) % RotationInterval = 0) \/ expired,
          request_count |-> rc + 1]

\* get_next_user_agent that advances the index before it reads the pool.
get_next_user_agent_increments_first(pool, enabled, index) ==
    IF ~enabled
        THEN [user_agent |-> IF pool # <<>> THEN pool[1] ELSE "", index |-> index]
    ELSE IF pool # <<>>
        THEN [user_agent |-> pool[((index + 1) % Len(pool)) + 1],
              index |-> (index + 1) % Len(pool)]
    ELSE [user_agent |-> "", index |-> index]

\* get_next_user_agent: [user_agent, index] for the pool, the switch and the
\* index current_user_agent_index (counted from 0, as the list is indexed).
get_next_user_agent(pool, enabled, index) ==
    IF ~enabled
        THEN [user_agent |-> IF pool # <<>> THEN pool[1] ELSE "", index |-> index]
    ELSE IF pool # <<>>
        THEN [user_agent |-> pool[index + 1], index |-> (index + 1) % Len(pool)]
    ELSE [user_agent |-> "", index |-> index]

\* DriverManager._create_chrome_options: the user agent of the new driver is
\* asked from anti_detection, which moves its index.
_create_chrome_options ==
    \E n \in {get_next_user_agent(user_agents, enable_user_agent_rotation,
                                   current_user_agent_index)} :
        /\ current_user_agent_index' = n.index
        /\ UNCHANGED <<user_agents, enable_user_agent_rotation, user_agents_given>>

-----------------------------------------------------------------------------
(* HashUtils.normalize_content and the page digest of monitor.py.  The     *)
(* atoms the regular expressions and BeautifulSoup act on:                 *)

\* \d{1,2}:\d{2}:\d{2} and \d{4}-\d{2}-\d{2}
TimeTokens == {"12:34:56", "9:05:07"}
DateTokens == {"2024-01-15", "2025-12-31"}
\* id="[^"]*" and data-[^=]*="[^"]*": attributes as driver.page_source writes
\* them, the value between double quotes
DoubleQuotedIds == {"id=\"a\"", "id=\"b\""}
DoubleQuotedData == {"data-slot=\"1\"", "data-slot=\"2\""}
\* \s+
Whitespace == {" ", "\n"}
\* <script> and <style> elements
ScriptElements == {"<script>a()</script>", "<script>b()</script>"}
\* markup and text that nothing removes
PlainTokens == {"<p>", "libre"}

NotTime(a) == a \notin TimeTokens
NotDate(a) == a \notin DateTokens
NotDoubleQuotedId(a) == a \notin DoubleQuotedIds
NotDoubleQuotedData(a) == a \notin DoubleQuotedData

RECURSIVE CollapseWhitespace(_)
\* re.sub(r'\s+', ' ', content): every run of whitespace becomes one space.
CollapseWhitespace(content) ==
    IF content = <<>> THEN <<>>
    ELSE IF Head(content) \in Whitespace
        THEN IF Len(content) > 1 /\ content[2] \in Whitespace
                THEN CollapseWhitespace(Tail(content))
             ELSE <<" ">> \o CollapseWhitespace(Tail(content))
    ELSE <<Head(content)>> \o CollapseWhitespace(Tail(content))

\* str.strip() of a text whose whitespace runs were collapsed.
strip(content) ==
    LET from == IF content # <<>> /\ Head(content) = " " THEN 2 ELSE 1
        to   == IF Len(content) >= from /\ content[Len(content)] = " "
                    THEN Len(content) - 1 ELSE Len(content)
    IN  SubSeq(content, from, to)

\* normalize_content without the pattern of the dates.
normalize_content_keeps_dates(content) ==
    strip(CollapseWhitespace(
        SelectSeq(SelectSeq(SelectSeq(content, NotTime), NotDoubleQuotedId),
                  NotDoubleQuotedData)))

\* HashUtils.normalize_content
normalize_content(content) ==
    strip(CollapseWhitespace(
        SelectSeq(SelectSeq(SelectSeq(SelectSeq(content, NotTime), NotDate),
                            NotDoubleQuotedId), NotDoubleQuotedData)))

\* script.decompose() for script and style elements
NotScript(a) == a \notin ScriptElements
\* del tag[attr] for 'data-reactid', 'data-testid', 'id'
NotIdAttribute(a) == a \notin DoubleQuotedIds

\* What the try block of _get_page_hash hashes: str(soup) of the normalised
\* content without scripts and without the id attributes.  The md5 digest of
\* a text is modelled by the text: equal texts, equal digests.
md5_of_clean_content(page_source) ==
    SelectSeq(SelectSeq(normalize_content(page_source), NotScript), NotIdAttribute)

NoHash == [none |-> TRUE, md5 |-> <<>>]

\* monitor.py _get_page_hash: None when the driver is None or a read raises.
_get_page_hash(d) ==
    IF d.is_none \/ "_get_page_hash" \in d.failing THEN NoHash
    ELSE [none |-> FALSE, md5 |-> md5_of_clean_content(d.page_source)]

\* appointment: the title of the page was the one of the appointment page;
\* watching: the page was typed UNAVAILABLE in a cycle entered in MONITORING;
\* navigated: it was typed INITIAL in a cycle entered in INITIAL whose click succeeded.
NoLastPage ==
    [page_source |-> <<>>, hash |-> NoHash, appointment |-> FALSE, watching |-> FALSE,
     navigated |-> FALSE]

\* current_hash != self.last_page_hash, when both digests exist.
CompareHashes(current_hash, last_page_hash) ==
    IF current_hash.none \/ last_page_hash.none THEN "unknown"
    ELSE IF current_hash # last_page_hash THEN "changed"
    ELSE "unchanged"

\* monitor.py, PageType.UNAVAILABLE in MONITORING: `current_hash !=
\* self.last_page_hash` chooses between the CHANGE DETECTED branch, which
\* stores current_hash, and the branch that logs the description.  None is
\* NoHash: it differs from every digest and equals itself.
compare_with_last_page_hash(current_hash, last_page_hash) ==
    IF current_hash # last_page_hash
        THEN [branch |-> "ChangeDetected", last_page_hash |-> current_hash]
    ELSE [branch |-> "NoChange", last_page_hash |-> last_page_hash]

\* The page of a cycle against the page of the cycle before: the digests,
\* whether both or neither had the title of the appointment page, whether that cycle was one watching an UNAVAILABLE page and whether
\* it was one that navigated from the initial page.
NoComparison ==
    [hash |-> "unknown", title_kept |-> FALSE, watched |-> FALSE, navigated |-> FALSE]

-----------------------------------------------------------------------------
(* The inputs: what the browser may show. *)

RECURSIVE Concat(_)
\* The concatenation of a sequence of phrases.
Concat(ps) == IF ps = <<>> THEN <<>> ELSE Head(ps) \o Concat(Tail(ps))

\* The texts made of at most n phrases of the set P.
Texts(P, n) == UNION {{Concat(ps) : ps \in [1..k -> P]} : k \in 0..n}

TitlePhrases ==
    { <<"Constituez votre dossier">>, <<"Choisissez votre ", "créneau">>, <<"Accueil">>,
      <<"Connexion">>, <<"Préfecture">> }

ContentPhrases ==
    { <<"Aucun ", "créneau", " ", "disponible">>, <<"captcha", "id">>, <<"Cloudflare">>,
      <<"service ", "temporairement", " ", "in", "disponible">>,
      <<"service ", "un", "available">>, <<"loading">>, <<"connexion">>,
      <<"réserver">>, <<"bonjour">> }

Browser(title, page_source, failing) ==
    [title |-> title, page_source |-> page_source, failing |-> failing, is_none |-> FALSE]

\* The inputs of the classifier.
ClassifierInputs ==
    { Browser(t, c, f) : t \in Texts(TitlePhrases, MaxTitlePhrases),
                         c \in Texts(ContentPhrases, MaxContentPhrases),
                         f \in SUBSET Calls }

\* The pages the monitor is shown: one title phrase and one phrase of content.
MonitorPages == { Browser(t, c, {}) : t \in TitlePhrases, c \in ContentPhrases }

\* What the monitor's driver may be in a cycle: a page of MonitorPages with any
\* of the calls failing, or a browser that was quit, where every call raises.
MonitorBrowsers == { Browser(p.title, p.page_source, f) : p \in MonitorPages, f \in SUBSET Calls }
QuitBrowser == Browser(<<>>, <<>>, Calls \cup {"_get_page_hash"})

NoBrowser == Browser(<<>>, <<>>, {})
NoDetection == Returned(Detection("none", ""))
NoPageInfo == Returned([type |-> "none", description |-> "", title |-> <<>>])

-----------------------------------------------------------------------------
(* DriverManager and the delays. *)

Handles == {"h1", "h2", "h3"}

\* The handle uc.Chrome(...) returns: one that nothing refers to any more.
FreshHandle(mgr, loop) == CHOOSE h \in Handles : h \notin {mgr, loop}

\* How setup_driver ends: a new driver; uc.Chrome raises (self.driver is left as
\* it was); or a later step raises when self.driver is already the new driver.
SetupOutcomes == {"ok", "create_raises", "configure_raises"}

\* A quit that leaves the driver open.
quit_leaves_driver(mgr, quits) == quits

\* DriverManager.quit and the quit of rotate_session: self.driver.quit() is
\* called when self.driver is set.
quit(mgr, quits) == IF mgr # "None" THEN quits \cup {mgr} ELSE quits

\* rotate_session: the driver it leaves in self.driver, the handles quit so far,
\* and whether anti_detection.reset_session() was reached.
rotate_session(mgr, loop, quits, quit_ok, o) ==
    IF mgr = "None" THEN [driver |-> mgr, quits |-> quits, reset |-> FALSE]
    ELSE IF ~quit_ok THEN [driver |-> mgr, quits |-> quits \cup {mgr}, reset |-> FALSE]
    ELSE IF o = "create_raises"
        THEN [driver |-> mgr, quits |-> quits \cup {mgr}, reset |-> TRUE]
    ELSE LET h == FreshHandle(mgr, loop)
         IN  [driver |-> h, quits |-> (quits \cup {mgr}) \ {h}, reset |-> TRUE]

min_random_delay == 5
max_random_delay == 10
base_interval == 10

\* get_random_delay: 0 when random delays are off, else uniform(min, max).
get_random_delay(random_delays) ==
    IF ~random_delays THEN {0} ELSE min_random_delay..max_random_delay

\* smart_delay that sleeps what get_random_delay returns, whatever the switch.
smart_delay_always_random(random_delays) == get_random_delay(random_delays)

\* DelayManager.smart_delay: the values time.sleep may be given.
smart_delay(random_delays) ==
    IF random_delays THEN get_random_delay(random_delays) ELSE {base_interval}

\* An _apply_delay that does not sleep while the monitor waits for the CAPTCHA.
_apply_delay_none_in_captcha_wait(st, random_delays) ==
    IF st = "captcha_wait" THEN {0}
    ELSE IF st = "available" THEN {30}
    ELSE smart_delay(random_delays)

\* An _apply_delay that calls smart_delay in every state.
_apply_delay_always_smart(st, random_delays) == smart_delay(random_delays)

\* _apply_delay: the values time.sleep may be given in state st.
_apply_delay(st, random_delays) ==
    IF st = "captcha_wait" THEN {1}
    ELSE IF st = "available" THEN {30}
    ELSE smart_delay(random_delays)

-----------------------------------------------------------------------------
(* RDVMonitor: construction, start() and the monitoring loop. *)

\* What the calls of a cycle return on each browser: get_page_info,
\* detect_page_type, and the digest of the page.
Observed ==
    [d \in MonitorBrowsers \cup {QuitBrowser} |->
        [info |-> get_page_info(d), detected |-> detect_page_type(d),
         hash |-> _get_page_hash(d)]]

MonitorState == {"initial", "navigating", "captcha_wait", "monitoring", "available"}

\* The record of what the cycle observed and emitted is cleared.
PageRecordReset ==
    /\ browser' = NoBrowser
    /\ page_info' = NoPageInfo
    /\ detected' = NoDetection
    /\ availability' = NotCalled
    /\ state_at_entry' = "none"
    /\ events' = <<>>
    /\ digest_status' = NoComparison
    /\ UNCHANGED last_page

CycleReset ==
    /\ PageRecordReset
    /\ slept' = <<>>

\* The state monitor.py gave a new monitor.
initial_state_of_monitor_py == "initial"

\* self.state = MonitorState.MONITORING in __init__: no option is read for it.
initial_state == "monitoring"

\* RDVMonitor.__init__ and the module-level AntiDetectionUtils(), Config.
Init ==
    /\ state = initial_state
    /\ running = TRUE
    /\ request_count = 0
    /\ session_expired = FALSE
    /\ enable_session_rotation \in BOOLEAN
    /\ enable_random_delays \in BOOLEAN
    /\ mgr_driver = "None"
    /\ loop_driver = "None"
    /\ quit_handles = {}
    /\ pc = "start"
    /\ browser = NoBrowser
    /\ page_info = NoPageInfo
    /\ detected = NoDetection
    /\ availability = NotCalled
    /\ rotate_result = [call |-> 0, expired |-> FALSE, pending |-> FALSE, result |-> FALSE]
    /\ calls_since_reset = 0
    /\ state_at_entry = "none"
    /\ events = <<>>
    /\ slept = <<>>
    /\ last_page = NoLastPage
    /\ digest_status = NoComparison
    /\ user_agents = <<"ua1">>
    /\ enable_user_agent_rotation = TRUE
    /\ current_user_agent_index = 0
    /\ user_agents_given = <<>>

\* start(): _initialize_driver (setup_driver asks its Chrome options first) and
\* _load_initial_page (which raises nothing);
\* a setup_driver failure is the fatal error: except, then finally quit.
Start ==
    /\ pc = "start"
    /\ \E o \in SetupOutcomes :
        LET h == FreshHandle(mgr_driver, loop_driver)
        IN  IF o = "ok"
                THEN /\ mgr_driver' = h
                     /\ loop_driver' = h
                     /\ quit_handles' = quit_handles \ {h}
                     /\ pc' = "loop"
            ELSE /\ mgr_driver' = IF o = "configure_raises" THEN h ELSE mgr_driver
                 /\ loop_driver' = loop_driver
                 /\ quit_handles' = quit(mgr_driver', quit_handles \ {h})
                 /\ pc' = "exited"
    /\ UNCHANGED <<state, running, request_count, session_expired, enable_session_rotation,
                   enable_random_delays, browser, page_info, detected, availability,
                   rotate_result, calls_since_reset, state_at_entry, events, slept>>
    /\ UNCHANGED digest_vars
    /\ _create_chrome_options

\* while self.running: a new iteration begins (_log_loop_start).
LoopStart ==
    /\ pc = "loop"
    /\ running
    /\ CycleReset
    /\ pc' = "rotation"
    /\ UNCHANGED <<state, running, request_count, session_expired, enable_session_rotation,
                   enable_random_delays, mgr_driver, loop_driver, quit_handles,
                   rotate_result, calls_since_reset>>
    /\ UNCHANGED identity_vars

\* _handle_session_rotation (the setup_driver of rotate_session asks its Chrome
\* options first).  quit_ok, o, get_ok: how self.driver.quit(),
\* setup_driver and driver.get(initial_page_url) end.  A driver.get that raises
\* leaves the method by the exception: state and the loop's driver keep their values.
HandleSessionRotation ==
    /\ pc = "rotation"
    /\ IF state = "captcha_wait"
        THEN /\ pc' = "refresh"
             /\ UNCHANGED <<state, request_count, session_expired, mgr_driver, loop_driver,
                            quit_handles, rotate_result, calls_since_reset, events>>
             /\ UNCHANGED identity_vars
       ELSE
        LET r == should_rotate_session(enable_session_rotation, request_count,
                                       session_expired)
        IN  /\ calls_since_reset < MaxRequests
            /\ rotate_result' = [call |-> calls_since_reset + 1,
                                  expired |-> session_expired,
                                  pending |-> /\ calls_since_reset > 0
                                              /\ (rotate_result.pending
                                                     \/ rotate_result.result),
                                  result |-> r.result]
            /\ IF ~r.result
                THEN /\ request_count' = r.request_count
                     /\ calls_since_reset' = calls_since_reset + 1
                     /\ pc' = "refresh"
                     /\ UNCHANGED <<state, session_expired, mgr_driver, loop_driver,
                                    quit_handles, events>>
                     /\ UNCHANGED identity_vars
               ELSE \E quit_ok \in BOOLEAN, o \in SetupOutcomes, get_ok \in BOOLEAN :
                    LET rot == rotate_session(mgr_driver, loop_driver, quit_handles,
                                              quit_ok, o)
                        get_raises == rot.driver \in rot.quits \/ ~get_ok
                    IN  /\ mgr_driver' = rot.driver
                        /\ quit_handles' = rot.quits
                        /\ request_count' = IF rot.reset THEN 0 ELSE r.request_count
                        /\ calls_since_reset' =
                              IF rot.reset THEN 0 ELSE calls_since_reset + 1
                        /\ session_expired' = IF rot.reset THEN FALSE ELSE session_expired
                        /\ events' = Append(events, "SessionRotated")
                        /\ IF rot.reset THEN _create_chrome_options
                           ELSE UNCHANGED identity_vars
                        /\ IF rot.driver = "None"
                            THEN /\ loop_driver' = "None"
                                 /\ pc' = "refresh"
                                 /\ UNCHANGED state
                           ELSE IF get_raises
                            THEN /\ pc' = "except"
                                 /\ UNCHANGED <<state, loop_driver>>
                           ELSE /\ state' = "initial"
                                /\ loop_driver' = rot.driver
                                /\ pc' = "refresh"
    /\ UNCHANGED <<running, enable_session_rotation, enable_random_delays, browser,
                   page_info, detected, availability, state_at_entry, slept>>
    /\ UNCHANGED digest_vars

\* A _handle_page_refresh that refreshes in every state.
HandlePageRefresh_in_every_state ==
    /\ pc = "refresh"
    /\ events' = IF loop_driver # "None" THEN Append(events, "PageRefresh") ELSE events
    /\ pc' = IF loop_driver # "None" THEN "process" ELSE "delay"
    /\ UNCHANGED <<state, running, request_count, session_expired, enable_session_rotation,
                   enable_random_delays, mgr_driver, loop_driver, quit_handles, browser,
                   page_info, detected, availability, rotate_result, calls_since_reset,
                   state_at_entry, slept>>
    /\ UNCHANGED digest_vars
    /\ UNCHANGED identity_vars

\* A _handle_page_refresh that refreshes nothing.
HandlePageRefresh_never ==
    /\ pc = "refresh"
    /\ pc' = IF loop_driver # "None" THEN "process" ELSE "delay"
    /\ UNCHANGED <<state, running, request_count, session_expired, enable_session_rotation,
                   enable_random_delays, mgr_driver, loop_driver, quit_handles, browser,
                   page_info, detected, availability, rotate_result, calls_since_reset,
                   state_at_entry, events, slept>>
    /\ UNCHANGED digest_vars
    /\ UNCHANGED identity_vars

\* _handle_page_refresh, and the loop's `if driver is not None` before
\* _process_current_page.
HandlePageRefresh ==
    /\ pc = "refresh"
    /\ events' = IF loop_driver # "None" /\ state \notin {"captcha_wait", "available"}
                    THEN Append(events, "PageRefresh")
                 ELSE events
    /\ pc' = IF loop_driver # "None" THEN "process" ELSE "delay"
    /\ UNCHANGED <<state, running, request_count, session_expired, enable_session_rotation,
                   enable_random_delays, mgr_driver, loop_driver, quit_handles, browser,
                   page_info, detected, availability, rotate_result, calls_since_reset,
                   state_at_entry, slept>>
    /\ UNCHANGED digest_vars
    /\ UNCHANGED identity_vars

\* _process_current_page on what the browser shows now.  On a handle that was
\* quit every browser call raises and no element can be clicked.
ProcessCurrentPage ==
    /\ pc = "process"
    /\ \E d \in (IF loop_driver \in quit_handles THEN {QuitBrowser} ELSE MonitorBrowsers),
          click_ok \in BOOLEAN :
       \E seen \in {Observed[d]} :
       \E st1 \in {IF captcha_completed(state, seen.info.value.type) THEN "monitoring"
                   ELSE state} :
       \E h \in {_handle_page_type(st1, d, seen.info.value.type, seen.info.value.title,
                                    click_ok)} :
       \E out \in {_process_current_page(state, d, seen.info.value, h)} :
            /\ click_ok => (seen.info.value.type = "initial" /\ d # QuitBrowser)
            /\ browser' = d
            /\ page_info' = seen.info
            /\ detected' = seen.detected
            /\ availability' = out.avail
            /\ state_at_entry' = state
            /\ state' = out.state
            /\ events' = events \o out.events
            /\ slept' = slept \o out.slept
            /\ last_page' = [page_source |-> d.page_source, hash |-> seen.hash,
                             appointment |-> Contains(lower(d.title), AppointmentTitle),
                             watching |-> /\ state = "monitoring"
                                          /\ seen.info.value.type = "unavailable",
                             navigated |-> /\ state = "initial"
                                           /\ seen.info.value.type = "initial"
                                           /\ click_ok]
            /\ digest_status' = [hash |-> CompareHashes(seen.hash, last_page.hash),
                                 title_kept |-> Contains(lower(d.title), AppointmentTitle)
                                                    = last_page.appointment,
                                 watched |-> last_page.watching,
                                 navigated |-> last_page.navigated]
    /\ pc' = "delay"
    /\ UNCHANGED <<running, request_count, session_expired, enable_session_rotation,
                   enable_random_delays, mgr_driver, loop_driver, quit_handles,
                   rotate_result, calls_since_reset>>
    /\ UNCHANGED identity_vars

\* _apply_delay at the end of the try block: the cycle is over, what is kept of
\* it is the time slept.
ApplyDelay ==
    /\ pc = "delay"
    /\ \E s \in _apply_delay(state, enable_random_delays) : slept' = Append(slept, s)
    /\ pc' = "loop"
    /\ PageRecordReset
    /\ UNCHANGED <<state, running, request_count, session_expired, enable_session_rotation,
                   enable_random_delays, mgr_driver, loop_driver, quit_handles,
                   rotate_result, calls_since_reset>>
    /\ UNCHANGED identity_vars

\* An except clause that logs the error and lets it leave the loop.
LoopException_propagates ==
    /\ pc = "except"
    /\ events' = Append(events, "MonitoringError")
    /\ pc' = "exited"
    /\ UNCHANGED <<state, running, request_count, session_expired, enable_session_rotation,
                   enable_random_delays, mgr_driver, loop_driver, quit_handles, browser,
                   page_info, detected, availability, rotate_result, calls_since_reset,
                   state_at_entry, slept>>
    /\ UNCHANGED digest_vars
    /\ UNCHANGED identity_vars

\* except Exception of the loop: the error is logged, then smart_delay unless
\* the state is CAPTCHA_WAIT, and the while loop goes on.
LoopException ==
    /\ pc = "except"
    /\ events' = Append(events, "MonitoringError")
    /\ IF state # "captcha_wait"
        THEN \E s \in smart_delay(enable_random_delays) : slept' = Append(slept, s)
       ELSE UNCHANGED slept
    /\ pc' = "loop"
    /\ UNCHANGED <<state, running, request_count, session_expired, enable_session_rotation,
                   enable_random_delays, mgr_driver, loop_driver, quit_handles, browser,
                   page_info, detected, availability, rotate_result, calls_since_reset,
                   state_at_entry>>
    /\ UNCHANGED digest_vars
    /\ UNCHANGED identity_vars

\* _signal_handler: running = False, driver_manager.quit(), sys.exit(0); the
\* SystemExit leaves start() through its finally, which calls quit() again.
\* The cycle that was interrupted is abandoned, and its record with it.
SignalHandler ==
    /\ pc # "exited"
    /\ running' = FALSE
    /\ quit_handles' = quit(mgr_driver, quit_handles)
    /\ pc' = "exited"
    /\ CycleReset
    /\ UNCHANGED <<state, request_count, session_expired, enable_session_rotation,
                   enable_random_delays, mgr_driver, loop_driver, rotate_result,
                   calls_since_reset>>
    /\ UNCHANGED identity_vars

\* The page types whose handler reads the page inside a bare `except:`: the
\* captcha handler's check_captcha_image when the state is not yet
\* CAPTCHA_WAIT, and the button search of the initial page.
SwallowingTypes(st) ==
    (IF st # "captcha_wait" THEN {"captcha"} ELSE {}) \cup {"initial"}

\* The signal arrives while a browser call runs inside one of those bare
\* `except:` blocks: _signal_handler sets running = False and quits the driver,
\* and the SystemExit of sys.exit(0) is caught there.  What
\* _process_current_page did before that point is done.
InterruptSwallowed ==
    /\ pc = "process"
    /\ running
    /\ loop_driver \notin quit_handles
    /\ \E d \in MonitorBrowsers :
       \E seen \in {Observed[d]} :
            /\ seen.info.value.type \in SwallowingTypes(state)
            /\ browser' = d
            /\ page_info' = seen.info
            /\ detected' = seen.detected
            /\ state' = IF captcha_completed(state, seen.info.value.type)
                            THEN "monitoring" ELSE state
            /\ events' = events
                            \o (IF captcha_completed(state, seen.info.value.type)
                                    THEN <<"CaptchaResolved">> ELSE <<>>)
                            \o (IF seen.info.value.type = "initial"
                                    THEN <<"NavigationAttempt">> ELSE <<>>)
            /\ last_page' = [page_source |-> d.page_source, hash |-> seen.hash,
                             appointment |-> Contains(lower(d.title), AppointmentTitle),
                             watching |-> FALSE, navigated |-> FALSE]
            /\ digest_status' = [hash |-> CompareHashes(seen.hash, last_page.hash),
                                 title_kept |-> Contains(lower(d.title), AppointmentTitle)
                                                    = last_page.appointment,
                                 watched |-> last_page.watching,
                                 navigated |-> last_page.navigated]
    /\ running' = FALSE
    /\ quit_handles' = quit(mgr_driver, quit_handles)
    /\ pc' = "swallowed"
    /\ UNCHANGED <<request_count, session_expired, enable_session_rotation,
                   enable_random_delays, mgr_driver, loop_driver, availability,
                   rotate_result, calls_since_reset, state_at_entry, slept>>
    /\ UNCHANGED identity_vars

\* The handler goes on after the bare `except:`: handle_captcha_detected plays
\* its sound and shows its notification and the state becomes CAPTCHA_WAIT;
\* the button search finds nothing to click on the driver that was quit.
\* The page is handled now; the state the cycle was entered in was CAPTCHA_WAIT
\* when the completion of the captcha was reported, else it is the state kept.
ResumeSwallowed ==
    /\ pc = "swallowed"
    /\ state_at_entry' = IF \E i \in DOMAIN events : events[i] = "CaptchaResolved"
                            THEN "captcha_wait"
                         ELSE state
    /\ \E h \in {IF page_info.value.type = "captcha" THEN _handle_captcha_page(state)
                  ELSE Outcome(state, <<>>, <<>>, NotCalled)} :
            /\ state' = h.state
            /\ events' = events \o h.events
    /\ pc' = "delay"
    /\ UNCHANGED <<running, request_count, session_expired, enable_session_rotation,
                   enable_random_delays, mgr_driver, loop_driver, quit_handles, browser,
                   page_info, detected, availability, rotate_result, calls_since_reset,
                   slept>>
    /\ UNCHANGED digest_vars
    /\ UNCHANGED identity_vars

\* while self.running is false: the loop ends and the finally of start() calls
\* driver_manager.quit().
LoopExit ==
    /\ pc = "loop"
    /\ ~running
    /\ quit_handles' = quit(mgr_driver, quit_handles)
    /\ pc' = "exited"
    /\ UNCHANGED <<state, running, request_count, session_expired, enable_session_rotation,
                   enable_random_delays, mgr_driver, loop_driver, browser, page_info,
                   detected, availability, rotate_result, calls_since_reset,
                   state_at_entry, events, slept>>
    /\ UNCHANGED digest_vars
    /\ UNCHANGED identity_vars

\* The wall clock passes session_start_time + 3600.  Only should_rotate_session
\* reads the clock, so the hour is taken to pass right before a call of it.
HourElapses ==
    /\ pc = "rotation"
    /\ ~session_expired
    /\ session_expired' = TRUE
    /\ UNCHANGED <<state, running, request_count, enable_session_rotation,
                   enable_random_delays, mgr_driver, loop_driver, quit_handles, pc, browser,
                   page_info, detected, availability, rotate_result, calls_since_reset,
                   state_at_entry, events, slept>>
    /\ UNCHANGED digest_vars
    /\ UNCHANGED identity_vars

Next ==
    \/ Start
    \/ LoopStart
    \/ HandleSessionRotation
    \/ HandlePageRefresh
    \/ ProcessCurrentPage
    \/ ApplyDelay
    \/ LoopException
    \/ SignalHandler
    \/ InterruptSwallowed
    \/ ResumeSwallowed
    \/ LoopExit
    \/ HourElapses

Spec == Init /\ [][Next]_vars

-----------------------------------------------------------------------------
(* The classifier on its own: detect_page_type, get_page_info and          *)
(* check_availability applied to every input of ClassifierInputs.          *)

InitClassify ==
    /\ state = "monitoring"
    /\ running = TRUE
    /\ request_count = 0
    /\ session_expired = FALSE
    /\ enable_session_rotation = TRUE
    /\ enable_random_delays = TRUE
    /\ mgr_driver = "h1"
    /\ loop_driver = "h1"
    /\ quit_handles = {}
    /\ pc = "classify"
    /\ browser \in ClassifierInputs
    /\ page_info = NoPageInfo
    /\ detected = NoDetection
    /\ availability = NotCalled
    /\ rotate_result = [call |-> 0, expired |-> FALSE, pending |-> FALSE, result |-> FALSE]
    /\ calls_since_reset = 0
    /\ state_at_entry = "none"
    /\ events = <<>>
    /\ slept = <<>>
    /\ last_page = NoLastPage
    /\ digest_status = NoComparison
    /\ user_agents = <<"ua1">>
    /\ enable_user_agent_rotation = TRUE
    /\ current_user_agent_index = 0
    /\ user_agents_given = <<>>

DetectPageType ==
    /\ pc = "classify"
    /\ detected' = detect_page_type(browser)
    /\ pc' = "detected"
    /\ UNCHANGED <<state, running, request_count, session_expired, enable_session_rotation,
                   enable_random_delays, mgr_driver, loop_driver, quit_handles, browser,
                   page_info, availability, rotate_result, calls_since_reset,
                   state_at_entry, events, slept>>
    /\ UNCHANGED digest_vars
    /\ UNCHANGED identity_vars

GetPageInfo ==
    /\ pc = "classify"
    /\ page_info' = get_page_info(browser)
    /\ pc' = "informed"
    /\ UNCHANGED <<state, running, request_count, session_expired, enable_session_rotation,
                   enable_random_delays, mgr_driver, loop_driver, quit_handles, browser,
                   detected, availability, rotate_result, calls_since_reset,
                   state_at_entry, events, slept>>
    /\ UNCHANGED digest_vars
    /\ UNCHANGED identity_vars

CheckAvailability ==
    /\ pc = "classify"
    /\ availability' = Called(check_availability(browser).value)
    /\ pc' = "checked"
    /\ UNCHANGED <<state, running, request_count, session_expired, enable_session_rotation,
                   enable_random_delays, mgr_driver, loop_driver, quit_handles, browser,
                   page_info, detected, rotate_result, calls_since_reset,
                   state_at_entry, events, slept>>
    /\ UNCHANGED digest_vars
    /\ UNCHANGED identity_vars

NextClassify ==
    \/ DetectPageType
    \/ GetPageInfo
    \/ CheckAvailability

SpecClassify == InitClassify /\ [][NextClassify]_vars

-----------------------------------------------------------------------------
(* The digest on its own: _get_page_hash of a first page, kept in          *)
(* last_page_hash, then of the page a later cycle shows, and the           *)
(* comparison of the two.                                                  *)

DigestTokens ==
    PlainTokens \cup TimeTokens \cup DateTokens \cup DoubleQuotedIds \cup DoubleQuotedData
        \cup Whitespace \cup ScriptElements

\* The page sources of at most MaxDigestTokens tokens.
DigestInputs ==
    UNION { [1..n -> DigestTokens] : n \in 0..MaxDigestTokens }

\* The tokens a later load of the page may show in the place of token a: a
\* token of the same kind.
SameKind(a) ==
    CHOOSE K \in {PlainTokens, TimeTokens, DateTokens, DoubleQuotedIds, DoubleQuotedData,
                  Whitespace, ScriptElements} : a \in K

RECURSIVE Reloads(_)
\* The page sources a later load of page p may show.
Reloads(p) ==
    IF p = <<>> THEN {<<>>}
    ELSE { <<a>> \o q : a \in SameKind(Head(p)), q \in Reloads(Tail(p)) }

\* How the reads of _get_page_hash end: they succeed, or one of them raises.
DigestFailures == {{}, {"_get_page_hash"}}

InitDigest ==
    /\ state = "monitoring"
    /\ running = TRUE
    /\ request_count = 0
    /\ session_expired = FALSE
    /\ enable_session_rotation = TRUE
    /\ enable_random_delays = TRUE
    /\ mgr_driver = "h1"
    /\ loop_driver = "h1"
    /\ quit_handles = {}
    /\ pc = "first_check"
    /\ browser \in { Browser(<<>>, p, f) : p \in DigestInputs, f \in DigestFailures }
    /\ page_info = NoPageInfo
    /\ detected = NoDetection
    /\ availability = NotCalled
    /\ rotate_result = [call |-> 0, expired |-> FALSE, pending |-> FALSE, result |-> FALSE]
    /\ calls_since_reset = 0
    /\ state_at_entry = "none"
    /\ events = <<>>
    /\ slept = <<>>
    /\ last_page = NoLastPage
    /\ digest_status = NoComparison
    /\ user_agents = <<"ua1">>
    /\ enable_user_agent_rotation = TRUE
    /\ current_user_agent_index = 0
    /\ user_agents_given = <<>>

\* self.last_page_hash = self._get_page_hash(driver), the first check.
FirstPageHash ==
    /\ pc = "first_check"
    /\ last_page' = [NoLastPage EXCEPT !.page_source = browser.page_source,
                                       !.hash = _get_page_hash(browser)]
    /\ pc' = "reload"
    /\ UNCHANGED <<state, running, request_count, session_expired, enable_session_rotation,
                   enable_random_delays, mgr_driver, loop_driver, quit_handles, browser,
                   page_info, detected, availability, rotate_result, calls_since_reset,
                   state_at_entry, events, slept, digest_status>>
    /\ UNCHANGED identity_vars

\* The page is loaded again; current_hash = self._get_page_hash(driver) and
\* hash_changed = current_hash != self.last_page_hash.
NextPageHash ==
    /\ pc = "reload"
    /\ \E p \in Reloads(browser.page_source), f \in DigestFailures :
        /\ browser' = Browser(<<>>, p, f)
        /\ digest_status' =
              [NoComparison EXCEPT !.hash = CompareHashes(_get_page_hash(browser'),
                                                          last_page.hash)]
    /\ pc' = "compared"
    /\ UNCHANGED <<state, running, request_count, session_expired, enable_session_rotation,
                   enable_random_delays, mgr_driver, loop_driver, quit_handles,
                   page_info, detected, availability, rotate_result, calls_since_reset,
                   state_at_entry, events, slept, last_page>>
    /\ UNCHANGED identity_vars

\* The page is UNAVAILABLE and the state MONITORING: the branch on
\* current_hash != self.last_page_hash, and what it stores.
CompareWithLastPageHash ==
    /\ pc = "compared"
    /\ \E c \in {compare_with_last_page_hash(_get_page_hash(browser), last_page.hash)} :
        /\ events' = Append(events, c.branch)
        /\ last_page' = [last_page EXCEPT !.hash = c.last_page_hash]
    /\ pc' = "checked"
    /\ UNCHANGED <<state, running, request_count, session_expired, enable_session_rotation,
                   enable_random_delays, mgr_driver, loop_driver, quit_handles, browser,
                   page_info, detected, availability, rotate_result, calls_since_reset,
                   state_at_entry, slept, digest_status>>
    /\ UNCHANGED identity_vars

NextDigest ==
    \/ FirstPageHash
    \/ NextPageHash
    \/ CompareWithLastPageHash

SpecDigest == InitDigest /\ [][NextDigest]_vars

-----------------------------------------------------------------------------
(* The loop of monitor.py around the digest: the first digest is stored,   *)
(* then every cycle computes the digest of the page it is shown and        *)
(* handles the page by its type and the state.                             *)

\* monitor.py, PageType.INITIAL: the click is attempted in every state, and a
\* click that succeeded sets NAVIGATING; the digest is not looked at.
legacy_initial_page(st, click_ok, last_page_hash) ==
    [state |-> IF click_ok THEN "navigating" ELSE st,
     branch |-> "NavigationAttempt", last_page_hash |-> last_page_hash]

\* monitor.py, PageType.UNAVAILABLE: the comparison of the digests in
\* MONITORING; NAVIGATING becomes MONITORING; any other state only logs.
legacy_unavailable_page(st, current_hash, last_page_hash) ==
    IF st = "monitoring"
        THEN LET c == compare_with_last_page_hash(current_hash, last_page_hash)
             IN  [state |-> st, branch |-> c.branch, last_page_hash |-> c.last_page_hash]
    ELSE IF st = "navigating"
        THEN [state |-> "monitoring", branch |-> "NavigationComplete",
              last_page_hash |-> last_page_hash]
    ELSE [state |-> st, branch |-> "PageLogged", last_page_hash |-> last_page_hash]

\* The pages shown: the home page or the slot picker, with one of a few contents.
WatchTitles == { <<"Accueil">>, <<"Choisissez votre ", "créneau">> }
WatchContents == { <<"libre">>, <<"<p>">>, <<"libre", "12:34:56">> }
WatchBrowsers ==
    { Browser(t, c, f) : t \in WatchTitles, c \in WatchContents, f \in DigestFailures }

\* monitor.py __init__ and the page start() loads first.
InitWatch ==
    /\ state = "initial"
    /\ running = TRUE
    /\ request_count = 0
    /\ session_expired = FALSE
    /\ enable_session_rotation = FALSE
    /\ enable_random_delays = FALSE
    /\ mgr_driver = "h1"
    /\ loop_driver = "h1"
    /\ quit_handles = {}
    /\ pc = "first_check"
    /\ browser \in WatchBrowsers
    /\ page_info = NoPageInfo
    /\ detected = NoDetection
    /\ availability = NotCalled
    /\ rotate_result = [call |-> 0, expired |-> FALSE, pending |-> FALSE, result |-> FALSE]
    /\ calls_since_reset = 0
    /\ state_at_entry = "none"
    /\ events = <<>>
    /\ slept = <<>>
    /\ last_page = NoLastPage
    /\ digest_status = NoComparison
    /\ user_agents = <<"ua1">>
    /\ enable_user_agent_rotation = TRUE
    /\ current_user_agent_index = 0
    /\ user_agents_given = <<>>

\* One cycle of the loop of monitor.py on an INITIAL or UNAVAILABLE page:
\* get_page_info, current_hash = self._get_page_hash(driver), then the branch
\* of the page type.  digest_status keeps how current_hash compared with the
\* digest stored before the cycle.
WatchCycle ==
    /\ pc = "reload"
    /\ Len(events) < MaxWatchCycles
    /\ \E d \in WatchBrowsers, click_ok \in BOOLEAN :
       \E info \in {get_page_info(d)} :
       \E current_hash \in {_get_page_hash(d)} :
       \E h \in {IF info.value.type = "initial"
                     THEN legacy_initial_page(state, click_ok, last_page.hash)
                  ELSE legacy_unavailable_page(state, current_hash, last_page.hash)} :
            /\ click_ok => info.value.type = "initial"
            /\ info.value.type \in {"initial", "unavailable"}
            /\ browser' = d
            /\ page_info' = info
            /\ state_at_entry' = state
            /\ state' = h.state
            /\ events' = Append(events, h.branch)
            /\ last_page' = [last_page EXCEPT !.hash = h.last_page_hash]
            /\ digest_status' =
                  [NoComparison EXCEPT !.hash = CompareHashes(current_hash, last_page.hash)]
    /\ UNCHANGED <<running, request_count, session_expired, enable_session_rotation,
                   enable_random_delays, mgr_driver, loop_driver, quit_handles, pc,
                   detected, availability, rotate_result, calls_since_reset, slept>>
    /\ UNCHANGED identity_vars

NextWatch ==
    \/ FirstPageHash
    \/ WatchCycle

SpecWatch == InitWatch /\ [][NextWatch]_vars

-----------------------------------------------------------------------------
(* The user agents on their own: successive calls of get_next_user_agent   *)
(* and what they return.                                                   *)

UserAgents == {"ua1", "ua2", "ua3", "ua4"}

\* The pools of at most MaxPool user agents, each listed once.
Pools ==
    UNION { { p \in [1..n -> UserAgents] : \A i, j \in 1..n : p[i] = p[j] => i = j } :
            n \in 0..MaxPool }

InitIdentity ==
    /\ state = "monitoring"
    /\ running = TRUE
    /\ request_count = 0
    /\ session_expired = FALSE
    /\ enable_session_rotation = TRUE
    /\ enable_random_delays = TRUE
    /\ mgr_driver = "None"
    /\ loop_driver = "None"
    /\ quit_handles = {}
    /\ pc = "options"
    /\ browser = NoBrowser
    /\ page_info = NoPageInfo
    /\ detected = NoDetection
    /\ availability = NotCalled
    /\ rotate_result = [call |-> 0, expired |-> FALSE, pending |-> FALSE, result |-> FALSE]
    /\ calls_since_reset = 0
    /\ state_at_entry = "none"
    /\ events = <<>>
    /\ slept = <<>>
    /\ last_page = NoLastPage
    /\ digest_status = NoComparison
    /\ user_agents \in Pools
    /\ enable_user_agent_rotation \in BOOLEAN
    /\ current_user_agent_index = 0
    /\ user_agents_given = <<>>

\* anti_detection.get_next_user_agent() is called, as _create_chrome_options
\* calls it for each driver that is set up.
GetNextUserAgent ==
    /\ pc = "options"
    /\ Len(user_agents_given) < MaxAgentCalls
    /\ \E n \in {get_next_user_agent(user_agents, enable_user_agent_rotation,
                                      current_user_agent_index)} :
        /\ current_user_agent_index' = n.index
        /\ user_agents_given' = Append(user_agents_given, n.user_agent)
    /\ UNCHANGED <<user_agents, enable_user_agent_rotation>>
    /\ UNCHANGED <<state, running, request_count, session_expired, enable_session_rotation,
                   enable_random_delays, mgr_driver, loop_driver, quit_handles, pc, browser,
                   page_info, detected, availability, rotate_result, calls_since_reset,
                   state_at_entry, events, slept>>
    /\ UNCHANGED digest_vars

NextIdentity == GetNextUserAgent

SpecIdentity == InitIdentity /\ [][NextIdentity]_vars

-----------------------------------------------------------------------------
(* The vocabulary of the properties. *)

\* How many times e occurs in seq.
Count(seq, e) == Cardinality({i \in DOMAIN seq : seq[i] = e})

\* The current cycle has processed a page (_process_current_page has run).
CycleProcessed == state_at_entry # "none"

\* No browser read fails.
ReadsSucceed == browser.failing = {}

\* The reads of detect_page_type succeed.
DetectReadsSucceed == "detect_page_type" \notin browser.failing

CaptchaMarkerTitle(t) == Contains(lower(t), <<"constituez votre dossier">>)
SlotPickerTitle(t) == Contains(lower(t), <<"choisissez votre ", "créneau">>)
AccueilTitle(t) == Contains(lower(t), <<"accueil">>)
NoSlotPage(d) == Contains(lower(d.page_source), <<"aucun ", "créneau", " ", "disponible">>)

\* The page (lower-cased source or title) matches an indicator of the type;
\* CAPTCHA, INITIAL and UNAVAILABLE also have their title markers.
Matches(type, d) ==
    LET src == lower(d.page_source)
        ttl == lower(d.title)
    IN  CASE type = "captcha"        -> CaptchaMarkerTitle(d.title) \/ _is_captcha(src, ttl)
          [] type = "login_required" -> _is_login_required(src, ttl)
          [] type = "blocked"        -> _is_blocked(src, ttl)
          [] type = "maintenance"    -> _is_maintenance(src, ttl)
          [] type = "error"          -> _is_error(src, ttl)
          [] type = "loading"        -> _is_loading(src, ttl)
          [] type = "initial"        -> AccueilTitle(d.title)
          [] type = "available"      -> _is_available(src, ttl)
          [] type = "unavailable"    -> SlotPickerTitle(d.title)

\* The type earliest in the list `order` among those the page matches;
\* UNAVAILABLE, the default, when it matches none.
Earliest(order, d) ==
    LET m == {i \in DOMAIN order : Matches(order[i], d)}
    IN  IF m = {} THEN "unavailable"
        ELSE order[CHOOSE i \in m : \A j \in m : i <= j]

MatchedTypes(order, d) == {i \in DOMAIN order : Matches(order[i], d)}

\* The monitor concluded in this cycle that slots are available: it alerted
\* or entered AVAILABLE.
AvailabilityConcluded ==
    /\ CycleProcessed
    /\ \/ Count(events, "SlotsAvailable") > 0
       \/ (state = "available" /\ state_at_entry # "available")

-----------------------------------------------------------------------------
(* C1..C10 *)

\* C1: a cycle that observes a CAPTCHA page while the monitor is MONITORING
\* leaves it in CAPTCHA_WAIT with exactly one CaptchaDetected alert; a cycle
\* that observes a CAPTCHA page while already in CAPTCHA_WAIT emits no
\* CaptchaDetected alert and leaves the state CAPTCHA_WAIT.
C1_CaptchaAlertedOnce ==
    (CycleProcessed /\ page_info.value.type = "captcha") =>
        /\ state = "captcha_wait"
        /\ state_at_entry = "monitoring" => Count(events, "CaptchaDetected") = 1
        /\ state_at_entry = "captcha_wait" => Count(events, "CaptchaDetected") = 0

\* A later cycle: CAPTCHA seen again while in CAPTCHA_WAIT, reported as waiting.
C1_Witness ==
    /\ CycleProcessed
    /\ state_at_entry = "captcha_wait"
    /\ page_info.value.type = "captcha"
    /\ events = <<"CaptchaWaiting">>
    /\ state = "captcha_wait"

\* C2 as stated: in MONITORING, a page with the slot-picker title and without
\* the "no slot" phrase makes check_availability true, the state AVAILABLE and
\* exactly one SlotsAvailable alert.
C2_Original ==
    (/\ CycleProcessed
     /\ state_at_entry = "monitoring"
     /\ ReadsSucceed
     /\ SlotPickerTitle(browser.title)
     /\ ~NoSlotPage(browser)) =>
        /\ check_availability(browser).value
        /\ state = "available"
        /\ Count(events, "SlotsAvailable") = 1

\* C2: in MONITORING, a page with the slot-picker title, without the "no slot"
\* phrase and matching no CAPTCHA indicator makes check_availability true, the
\* state AVAILABLE and exactly one SlotsAvailable alert.
C2_SlotPickerWithoutCaptcha ==
    (/\ CycleProcessed
     /\ state_at_entry = "monitoring"
     /\ ReadsSucceed
     /\ SlotPickerTitle(browser.title)
     /\ ~NoSlotPage(browser)
     /\ ~Matches("captcha", browser)) =>
        /\ check_availability(browser).value
        /\ availability = Called(TRUE)
        /\ state = "available"
        /\ Count(events, "SlotsAvailable") = 1

C2_Witness ==
    /\ CycleProcessed
    /\ state_at_entry = "monitoring"
    /\ ReadsSucceed
    /\ SlotPickerTitle(browser.title)
    /\ ~NoSlotPage(browser)
    /\ ~Matches("captcha", browser)
    /\ state = "available"
    /\ events = <<"PageRefresh", "AppointmentPageCheck", "SlotsAvailable">>

\* C3 as stated: a page whose content holds "aucun créneau disponible" is never
\* classified AVAILABLE, check_availability is false on it and no
\* SlotsAvailable alert is emitted, whatever its title and other keywords.
C3_NoSlotPhraseWins ==
    (CycleProcessed /\ ReadsSucceed /\ NoSlotPage(browser)) =>
        /\ detected.value.type # "available"
        /\ ~check_availability(browser).value
        /\ Count(events, "SlotsAvailable") = 0

\* C4 as stated: availability is concluded only on a page that matches no
\* indicator of CAPTCHA, LOGIN_REQUIRED, BLOCKED, MAINTENANCE, ERROR or
\* LOADING, the slot-picker title included.
C4_Original ==
    AvailabilityConcluded =>
        \A t \in {"captcha", "login_required", "blocked", "maintenance", "error",
                  "loading"} : ~Matches(t, browser)

\* C4: availability is concluded only on a page that matches no CAPTCHA
\* indicator and that either carries the slot-picker title or matches no
\* indicator of LOGIN_REQUIRED, BLOCKED, MAINTENANCE, ERROR or LOADING.
C4_AvailabilityOnlyBelowPriorities ==
    AvailabilityConcluded =>
        /\ ~Matches("captcha", browser)
        /\ \/ SlotPickerTitle(browser.title)
           \/ \A t \in {"login_required", "blocked", "maintenance", "error", "loading"} :
                 ~Matches(t, browser)

\* Availability concluded by the keyword rule, on a page without the title.
C4_Witness ==
    /\ AvailabilityConcluded
    /\ ~SlotPickerTitle(browser.title)
    /\ detected.value.type = "available"
    /\ state = "available"

\* C5: a page whose title holds the CAPTCHA marker "constituez votre dossier",
\* in any letter case, is classified CAPTCHA whatever its content.
C5_CaptchaTitleWins ==
    (pc = "detected" /\ DetectReadsSucceed /\ CaptchaMarkerTitle(browser.title)) =>
        detected.value.type = "captcha"

\* The capitalised CAPTCHA title over content that a blocked page would show.
C5_Witness ==
    /\ pc = "detected"
    /\ DetectReadsSucceed
    /\ browser.title = <<"Constituez votre dossier">>
    /\ Matches("blocked", browser)
    /\ detected.value.type = "captcha"

\* The priority list as stated, and the order of the tests in detect_page_type.
ClaimedOrder ==
    <<"captcha", "login_required", "blocked", "maintenance", "error", "loading",
      "initial", "available", "unavailable">>
CodeOrder ==
    <<"captcha", "unavailable", "initial", "blocked", "maintenance", "error",
      "loading", "login_required", "available">>

\* C6 as stated: a page matching two or more types is given the one earliest
\* in CAPTCHA, LOGIN_REQUIRED, BLOCKED, MAINTENANCE, ERROR, LOADING, INITIAL,
\* AVAILABLE, UNAVAILABLE.
C6_Original ==
    (/\ pc = "detected"
     /\ DetectReadsSucceed
     /\ Cardinality(MatchedTypes(ClaimedOrder, browser)) >= 2) =>
        detected.value.type = Earliest(ClaimedOrder, browser)

\* C6: a page matching two or more types is given the one earliest in
\* CAPTCHA, UNAVAILABLE by the slot-picker title, INITIAL by the 'Accueil'
\* title, BLOCKED, MAINTENANCE, ERROR, LOADING, LOGIN_REQUIRED, AVAILABLE.
C6_PriorityOfTheCode ==
    (/\ pc = "detected"
     /\ DetectReadsSucceed
     /\ Cardinality(MatchedTypes(CodeOrder, browser)) >= 2) =>
        detected.value.type = Earliest(CodeOrder, browser)

\* A page with login and blocked keywords and no title marker: BLOCKED.
C6_Witness ==
    /\ pc = "detected"
    /\ DetectReadsSucceed
    /\ Matches("login_required", browser)
    /\ Matches("blocked", browser)
    /\ ~Matches("captcha", browser)
    /\ ~SlotPickerTitle(browser.title)
    /\ ~AccueilTitle(browser.title)
    /\ detected.value.type = "blocked"

\* C7 as stated: a title matching a title rule gives that rule's type,
\* whatever keywords the content holds.
C7_Original ==
    (pc = "detected" /\ DetectReadsSucceed) =>
        /\ CaptchaMarkerTitle(browser.title) => detected.value.type = "captcha"
        /\ SlotPickerTitle(browser.title) => detected.value.type = "unavailable"
        /\ AccueilTitle(browser.title) => detected.value.type = "initial"

\* C7: the CAPTCHA title gives CAPTCHA whatever the content; the slot-picker
\* title gives UNAVAILABLE and, without it, the 'Accueil' title gives INITIAL,
\* whatever keywords of the other types the page holds, provided it matches no
\* CAPTCHA indicator.
C7_TitleRulesAfterCaptcha ==
    (pc = "detected" /\ DetectReadsSucceed) =>
        /\ CaptchaMarkerTitle(browser.title) => detected.value.type = "captcha"
        /\ (SlotPickerTitle(browser.title) /\ ~Matches("captcha", browser)) =>
                detected.value.type = "unavailable"
        /\ (/\ AccueilTitle(browser.title)
            /\ ~SlotPickerTitle(browser.title)
            /\ ~Matches("captcha", browser)) =>
                detected.value.type = "initial"

\* The slot-picker title over the keywords of a blocked page.
C7_Witness ==
    /\ pc = "detected"
    /\ DetectReadsSucceed
    /\ SlotPickerTitle(browser.title)
    /\ Matches("blocked", browser)
    /\ ~Matches("captcha", browser)
    /\ detected.value.type = "unavailable"

\* The page matches no title rule and no indicator of any list.
NothingMatches(d) ==
    /\ \A t \in {"captcha", "login_required", "blocked", "maintenance", "error",
                 "loading", "initial", "available", "unavailable"} : ~Matches(t, d)
    /\ ~_is_initial(lower(d.page_source), lower(d.title))

\* C8: a page that matches no title rule and no content indicator of any type
\* is classified UNAVAILABLE.
C8_DefaultIsUnavailable ==
    (pc = "detected" /\ DetectReadsSucceed /\ NothingMatches(browser)) =>
        detected.value.type = "unavailable"

C8_Witness ==
    /\ pc = "detected"
    /\ DetectReadsSucceed
    /\ NothingMatches(browser)
    /\ browser.title # <<>>
    /\ browser.page_source # <<>>
    /\ detected.value.type = "unavailable"

\* C9: detect_page_type and get_page_info never raise; when a read of title or
\* content fails they return UNKNOWN with a description.
C9_ReadFailureIsUnknown ==
    /\ pc = "detected" =>
        /\ ~detected.raised
        /\ ~DetectReadsSucceed =>
             (detected.value.type = "unknown" /\ detected.value.description # "")
    /\ pc = "informed" =>
        /\ ~page_info.raised
        /\ (browser.failing \cap {"detect_page_type", "get_page_info"} # {}) =>
             (page_info.value.type = "unknown" /\ page_info.value.description # "")

C9_Witness ==
    /\ pc = "detected"
    /\ ~DetectReadsSucceed
    /\ browser.page_source # <<>>
    /\ detected = Returned(Detection("unknown", "Detection error"))

\* C10 as stated, for calls made within the hour: with rotation enabled,
\* should_rotate_session returns false before the RotationInterval-th call
\* since the last reset, and true on that call and on every later one.
C10_TrueFromNthCall ==
    (enable_session_rotation /\ rotate_result.call >= 1 /\ ~rotate_result.expired) =>
        (rotate_result.result <=> rotate_result.call >= RotationInterval)

\* C11 as stated: once a call of should_rotate_session has returned true, every
\* later call made before the next reset_session returns true as well.
C11_PendingRotationKept ==
    (enable_session_rotation /\ rotate_result.call >= 1 /\ rotate_result.pending) =>
        rotate_result.result

-----------------------------------------------------------------------------
(* C12..C20 *)

\* The cycle observed an UNAVAILABLE page in MONITORING, as the cycle before it
\* did, and the page has the title and the digest it had then.
WatchingUnchangedPage ==
    /\ CycleProcessed
    /\ state_at_entry = "monitoring"
    /\ page_info.value.type = "unavailable"
    /\ digest_status.watched
    /\ digest_status.title_kept
    /\ digest_status.hash = "unchanged"

\* C12 as stated: consecutive cycles that observe an UNAVAILABLE page in
\* MONITORING with an unchanged digest leave the state MONITORING and emit no
\* "change detected" event.
C12_Original ==
    WatchingUnchangedPage =>
        (state = "monitoring" /\ Count(events, "ChangeDetected") = 0)

\* C12: consecutive cycles that observe an UNAVAILABLE page in MONITORING with
\* an unchanged digest, and whose availability check does not report slots,
\* leave the state MONITORING and emit no "change detected" event.
C12_UnchangedPageKeepsMonitoring ==
    (WatchingUnchangedPage /\ availability # Called(TRUE)) =>
        (state = "monitoring" /\ Count(events, "ChangeDetected") = 0)

\* The slot-picker page with the "no slot" phrase, seen a second time running.
C12_Witness ==
    /\ WatchingUnchangedPage
    /\ ReadsSucceed
    /\ SlotPickerTitle(browser.title)
    /\ NoSlotPage(browser)
    /\ availability = Called(FALSE)
    /\ state = "monitoring"

\* C13 as stated: in INITIAL a page titled 'Accueil' is classified INITIAL, a
\* navigation click is attempted and, when it succeeds, the state is
\* NAVIGATING; the slot-picker page with "aucun créneau disponible" observed
\* next, in NAVIGATING, gives MONITORING, availability false and no
\* SlotsAvailable alert.
C13_Original ==
    /\ (/\ CycleProcessed
        /\ state_at_entry = "initial"
        /\ AccueilTitle(browser.title)
        /\ ReadsSucceed) =>
            /\ page_info.value.type = "initial"
            /\ Count(events, "NavigationAttempt") = 1
            /\ Count(events, "NavigationClicked") = 1 => state = "navigating"
    /\ (/\ CycleProcessed
        /\ state_at_entry = "navigating"
        /\ SlotPickerTitle(browser.title)
        /\ NoSlotPage(browser)
        /\ ReadsSucceed) =>
            /\ state = "monitoring"
            /\ ~check_availability(browser).value
            /\ availability # Called(TRUE)
            /\ Count(events, "SlotsAvailable") = 0

\* C13: the same scenario for pages that match no CAPTCHA indicator.
C13_NavigationScenario ==
    /\ (/\ CycleProcessed
        /\ state_at_entry = "initial"
        /\ AccueilTitle(browser.title)
        /\ ReadsSucceed
        /\ ~Matches("captcha", browser)) =>
            /\ page_info.value.type = "initial"
            /\ Count(events, "NavigationAttempt") = 1
            /\ Count(events, "NavigationClicked") = 1 => state = "navigating"
    /\ (/\ CycleProcessed
        /\ state_at_entry = "navigating"
        /\ SlotPickerTitle(browser.title)
        /\ NoSlotPage(browser)
        /\ ReadsSucceed
        /\ ~Matches("captcha", browser)) =>
            /\ state = "monitoring"
            /\ ~check_availability(browser).value
            /\ availability # Called(TRUE)
            /\ Count(events, "SlotsAvailable") = 0

\* The second step of the scenario: the slot-picker page without slots, seen
\* right after the click on the 'Accueil' page succeeded in INITIAL.
C13_Witness ==
    /\ CycleProcessed
    /\ digest_status.navigated
    /\ state_at_entry = "navigating"
    /\ SlotPickerTitle(browser.title)
    /\ NoSlotPage(browser)
    /\ ReadsSucceed
    /\ events = <<"PageRefresh", "NavigationComplete">>
    /\ state = "monitoring"

\* C14: an exception raised in a cycle reaches the except clause of the loop,
\* which logs it and returns to the head of the loop with the stop flag as it
\* was: the loop has not ended and its next iteration can start.
C14_ExceptionCaughtAtLoop ==
    /\ pc = "except" => running
    /\ Count(events, "MonitoringError") > 0 =>
            /\ pc = "loop"
            /\ running
            /\ ENABLED LoopStart

\* driver.get raised after a rotation; the error was logged and the loop is
\* back at its head after the delay of smart_delay.
C14_Witness ==
    /\ pc = "loop"
    /\ running
    /\ events = <<"SessionRotated", "MonitoringError">>
    /\ Len(slept) = 1

\* C15: once start() has ended, by the interrupt signal (the stop flag is
\* set) or by a fatal error of the driver setup, quit() has been called on the
\* driver the manager holds and on the driver the loop was using.
C15_DriverQuitOnExit ==
    pc = "exited" =>
        \A h \in {mgr_driver, loop_driver} \ {"None"} : h \in quit_handles

\* The interrupt arrives after a rotation has replaced the first driver.
C15_Witness ==
    /\ pc = "exited"
    /\ ~running
    /\ mgr_driver = "h2"
    /\ loop_driver = "h2"
    /\ quit_handles = {"h1", "h2"}

\* The two page sources differ at most in the values of their HH:MM:SS and
\* YYYY-MM-DD tokens and of their id and data-* attributes.
SameButVolatile(p, q) ==
    /\ Len(p) = Len(q)
    /\ \A i \in DOMAIN p :
          \/ p[i] = q[i]
          \/ \E K \in {TimeTokens, DateTokens, DoubleQuotedIds, DoubleQuotedData} :
                p[i] \in K /\ q[i] \in K

InPoolOrder ==
    \A k \in DOMAIN user_agents_given :
        user_agents_given[k] = user_agents[((k - 1) % Len(user_agents)) + 1]

IndexInPool == current_user_agent_index \in 0..(Len(user_agents) - 1)

\* C17 as stated: the calls of get_next_user_agent return the entries of the
\* pool in order, the first entry again after the last, and the index stays
\* within the pool.
C17_Original ==
    user_agents # <<>> => (InPoolOrder /\ IndexInPool)

\* C17: with the user agent rotation switched on, the calls of
\* get_next_user_agent return the entries of the pool in order, the first entry
\* again after the last; with it switched off every call returns the first
\* entry; the index stays within the pool in both cases.
C17_RoundRobinWhenEnabled ==
    user_agents # <<>> =>
        /\ IndexInPool
        /\ enable_user_agent_rotation => InPoolOrder
        /\ ~enable_user_agent_rotation =>
              \A k \in DOMAIN user_agents_given : user_agents_given[k] = user_agents[1]

\* Four calls on a pool of three: the fourth returned the first entry again.
C17_Witness ==
    /\ enable_user_agent_rotation
    /\ user_agents = <<"ua1", "ua2", "ua3">>
    /\ user_agents_given = <<"ua1", "ua2", "ua3", "ua1">>
    /\ current_user_agent_index = 1

\* The cycle that just ended slept the delay of smart_delay: it ended outside
\* CAPTCHA_WAIT and AVAILABLE, by _apply_delay or by the except clause.
SmartDelayApplied ==
    /\ pc = "loop"
    /\ slept # <<>>
    /\ state \notin {"captcha_wait", "available"}

C19_SlotsLostReported ==
    (/\ CycleProcessed
     /\ state_at_entry = "available"
     /\ ReadsSucceed
     /\ page_info.value.type = "unavailable"
     /\ SlotPickerTitle(browser.title) => NoSlotPage(browser)) =>
        (Count(events, "SlotsLost") = 1 /\ state = "monitoring")

\* The page offers slots: it is typed AVAILABLE, or it is the slot-picker page
\* (typed UNAVAILABLE by its title) without the "no slot" phrase.
ShowsSlots ==
    \/ page_info.value.type = "available"
    \/ /\ page_info.value.type = "unavailable"
       /\ SlotPickerTitle(browser.title)
       /\ ~NoSlotPage(browser)

\* C20 as stated: a cycle entered in AVAILABLE on a page that still offers
\* slots, the slot-picker page included, emits one Reminder alert, leaves the
\* state AVAILABLE and is followed by the delay of 30 seconds.
C20_ReminderEveryCycle ==
    (CycleProcessed /\ state_at_entry = "available" /\ ReadsSucceed /\ ShowsSlots) =>
        /\ Count(events, "Reminder") = 1
        /\ state = "available"
        /\ _apply_delay(state, enable_random_delays) = {30}

-----------------------------------------------------------------------------
(* C21..C30 *)

\* The sleep of the handlers of the transient page types.
Backoff(type) ==
    CASE type = "blocked" -> 30
      [] type = "maintenance" -> 60
      [] type = "error" -> 45
      [] type = "loading" -> 5

TransientTypes == {"blocked", "maintenance", "error", "loading"}

\* The events that tell the user something, or that act on the page.
AlertEvents ==
    {"CaptchaDetected", "CaptchaResolved", "SlotsAvailable", "SlotsLost", "Reminder",
     "AppointmentPageCheck", "NavigationAttempt", "NavigationClicked",
     "NavigationComplete"}

\* C21: a cycle entered in a state other than CAPTCHA_WAIT that observes a
\* BLOCKED, MAINTENANCE, ERROR or LOADING page leaves the state as it was,
\* emits no alert (no CaptchaDetected, no SlotsAvailable, nor any other), and
\* the page handling sleeps exactly the backoff of the type: 30, 60, 45, 5 s.
C21_TransientPageKeepsState ==
    (/\ CycleProcessed
     /\ state_at_entry # "captcha_wait"
     /\ page_info.value.type \in TransientTypes) =>
        /\ state = state_at_entry
        /\ \A i \in DOMAIN events : events[i] \notin AlertEvents
        /\ slept = <<Backoff(page_info.value.type)>>

\* A blocked page was observed while slots were available.
C21_Witness ==
    /\ CycleProcessed
    /\ state_at_entry = "available"
    /\ page_info.value.type = "blocked"
    /\ slept = <<30>>
    /\ state = "available"

\* C22 as stated: a cycle whose classification is UNKNOWN leaves the state as
\* it was at entry, CAPTCHA_WAIT included, and emits no alert and no
\* CaptchaResolved event.
C22_UnknownSkipsCycle ==
    (CycleProcessed /\ page_info.value.type = "unknown") =>
        /\ state = state_at_entry
        /\ \A i \in DOMAIN events : events[i] \notin AlertEvents

\* C23 as stated: a cycle entered in CAPTCHA_WAIT that observes a page of any
\* type but CAPTCHA emits CaptchaResolved once and ends in MONITORING.
C23_Original ==
    (/\ CycleProcessed
     /\ state_at_entry = "captcha_wait"
     /\ page_info.value.type # "captcha") =>
        (Count(events, "CaptchaResolved") = 1 /\ state = "monitoring")

\* C23: a cycle entered in CAPTCHA_WAIT that observes a page of any type but
\* CAPTCHA emits CaptchaResolved once and never ends in CAPTCHA_WAIT; the page
\* is then handled as in MONITORING, so the cycle ends in NAVIGATING when the
\* page is INITIAL and the click succeeded, in AVAILABLE when the page is
\* AVAILABLE or is the slot-picker page on which check_availability returned
\* true, and in MONITORING otherwise.
C23_CaptchaResolvedThenHandled ==
    (/\ CycleProcessed
     /\ state_at_entry = "captcha_wait"
     /\ page_info.value.type # "captcha") =>
        /\ Count(events, "CaptchaResolved") = 1
        /\ Count(events, "CaptchaDetected") = 0
        /\ state = (IF /\ page_info.value.type = "initial"
                       /\ Count(events, "NavigationClicked") = 1
                        THEN "navigating"
                    ELSE IF \/ page_info.value.type = "available"
                            \/ /\ page_info.value.type = "unavailable"
                               /\ SlotPickerTitle(browser.title)
                               /\ availability = Called(TRUE)
                        THEN "available"
                    ELSE "monitoring")

\* The CAPTCHA wait ended on a page that shows slots.
C23_Witness ==
    /\ CycleProcessed
    /\ state_at_entry = "captcha_wait"
    /\ page_info.value.type = "available"
    /\ Count(events, "CaptchaResolved") = 1
    /\ state = "available"

\* C24 as stated: a navigation attempt is made on an INITIAL page only when
\* the cycle was entered in INITIAL or NAVIGATING; the state becomes NAVIGATING
\* only after a successful click, and a failed click leaves the state as it was.
C24_Original ==
    /\ (CycleProcessed /\ Count(events, "NavigationAttempt") > 0) =>
            state_at_entry \in {"initial", "navigating"}
    /\ (CycleProcessed /\ state = "navigating" /\ state_at_entry # "navigating") =>
            Count(events, "NavigationClicked") = 1
    /\ (/\ CycleProcessed
        /\ page_info.value.type = "initial"
        /\ Count(events, "NavigationClicked") = 0) => state = state_at_entry

\* C24: an INITIAL page triggers one navigation attempt in every state, and
\* only an INITIAL page does; the cycle ends in NAVIGATING when the click
\* succeeded, and the state becomes NAVIGATING in no other way; when the click
\* fails the state is the one at entry, MONITORING if that was CAPTCHA_WAIT.
C24_AttemptOnEveryInitialPage ==
    /\ CycleProcessed =>
            Count(events, "NavigationAttempt") =
                (IF page_info.value.type = "initial" THEN 1 ELSE 0)
    /\ (CycleProcessed /\ Count(events, "NavigationClicked") > 0) =>
            (page_info.value.type = "initial" /\ state = "navigating")
    /\ (CycleProcessed /\ state = "navigating" /\ state_at_entry # "navigating") =>
            Count(events, "NavigationClicked") = 1
    /\ (/\ CycleProcessed
        /\ page_info.value.type = "initial"
        /\ Count(events, "NavigationClicked") = 0) =>
            state = (IF state_at_entry = "captcha_wait" THEN "monitoring"
                     ELSE state_at_entry)

\* The home page came back while slots were being watched, and the click failed.
C24_Witness ==
    /\ CycleProcessed
    /\ state_at_entry = "monitoring"
    /\ page_info.value.type = "initial"
    /\ events = <<"PageRefresh", "NavigationAttempt">>
    /\ state = "monitoring"

\* A rotation was performed in the current cycle.
RotatedThisCycle == Count(events, "SessionRotated") > 0

\* C25 as stated: in a cycle in which the session was rotated there is no page
\* refresh and no page is classified or handled.
C25_Original ==
    RotatedThisCycle => (Count(events, "PageRefresh") = 0 /\ ~CycleProcessed)

\* C25: a cycle in which the session was rotated goes on with the state
\* INITIAL: the page is refreshed, then classified and handled from INITIAL,
\* all in the same cycle; the steps are skipped only when loading the initial
\* page raised, which ends the iteration in the loop's except clause.  (An
\* interrupt may reach the handler while it handles the page from INITIAL.)
C25_RotationThenRestOfCycle ==
    RotatedThisCycle =>
        \/ pc = "except"
        \/ pc = "loop" /\ Count(events, "MonitoringError") = 1
        \/ pc = "refresh" /\ state = "initial"
        \/ pc = "process" /\ state = "initial" /\ Count(events, "PageRefresh") = 1
        \/ pc = "swallowed" /\ state = "initial" /\ Count(events, "PageRefresh") = 1
        \/ /\ pc = "delay"
           /\ Count(events, "PageRefresh") = 1
           /\ CycleProcessed
           /\ state_at_entry = "initial"

\* should_rotate_session returned true, the session was rotated, and the same
\* cycle refreshed and processed a page.
C25_Witness ==
    /\ RotatedThisCycle
    /\ rotate_result.result
    /\ pc = "delay"
    /\ Count(events, "PageRefresh") = 1
    /\ CycleProcessed
    /\ page_info.value.type = "initial"

\* C26 as stated: right after a rotation step that rotated, also one in which
\* closing or re-creating the browser failed, the state is INITIAL and the
\* session counters are reset (request_count = 0, the hour starts again); a
\* rotation step that did not rotate has counted its request and reset nothing.
C26_RotationResetsSession ==
    /\ (RotatedThisCycle /\ pc \in {"refresh", "except"}) =>
            (state = "initial" /\ request_count = 0 /\ ~session_expired)
    /\ (/\ ~RotatedThisCycle
        /\ pc = "refresh"
        /\ state # "captcha_wait"
        /\ enable_session_rotation) => request_count > 0

\* C27: the rotation step and the refresh step of a cycle that began in
\* CAPTCHA_WAIT do not call should_rotate_session, do not rotate the session,
\* leave request_count alone and do not refresh the page; and the refresh step
\* taken in AVAILABLE does not refresh the page.
C27_NoRotationNoRefreshWhileWaiting ==
    [][/\ (state = "captcha_wait" /\ pc \in {"rotation", "refresh"}) =>
            /\ rotate_result' = rotate_result
            /\ calls_since_reset' = calls_since_reset
            /\ request_count' = request_count
            /\ mgr_driver' = mgr_driver
            /\ Count(events', "SessionRotated") = 0
            /\ Count(events', "PageRefresh") = 0
            /\ state' = "captcha_wait"
       /\ (state = "available" /\ pc = "refresh") =>
            Count(events', "PageRefresh") = 0]_vars

\* A cycle that began in CAPTCHA_WAIT is past its rotation and refresh steps
\* while the hour of the session has elapsed; nothing was rotated or refreshed.
C27_Witness ==
    /\ pc = "process"
    /\ state = "captcha_wait"
    /\ enable_session_rotation
    /\ session_expired
    /\ events = <<>>

\* _apply_delay has ended a cycle: the loop is back at its head, and the
\* iteration did not go through the except clause.
CycleDelayApplied ==
    /\ pc = "loop"
    /\ slept # <<>>
    /\ Count(events, "MonitoringError") = 0

\* The delay d is the one of state st: 1 s in CAPTCHA_WAIT, 30 s in AVAILABLE,
\* and in INITIAL, NAVIGATING and MONITORING the delay of smart_delay, a value
\* of the random window, or base_interval when the random delays are off.
DelayOfState(st, d) ==
    CASE st = "captcha_wait" -> d = 1
      [] st = "available" -> d = 30
      [] OTHER -> IF enable_random_delays
                      THEN min_random_delay <= d /\ d <= max_random_delay
                  ELSE d = base_interval

\* C28 as stated: the delay that ends an iteration of the loop, whichever way
\* the iteration ended, is the one of the state the iteration ended in.
C28_Original ==
    (pc = "loop" /\ slept # <<>>) => DelayOfState(state, slept[Len(slept)])

\* C28: the delay _apply_delay applies at the end of a cycle is the one of the
\* state the cycle ended in; an iteration that ended in the except clause in
\* a state other than CAPTCHA_WAIT is followed by the delay of smart_delay,
\* in AVAILABLE too.
C28_DelayByFinalState ==
    /\ CycleDelayApplied => DelayOfState(state, slept[Len(slept)])
    /\ (/\ pc = "loop"
        /\ Count(events, "MonitoringError") = 1
        /\ state # "captcha_wait") =>
            (slept # <<>> /\ DelayOfState("monitoring", slept[Len(slept)]))

\* A cycle entered AVAILABLE and was followed by the delay of 30 seconds.
C28_Witness ==
    /\ CycleDelayApplied
    /\ state = "available"
    /\ slept = <<30>>

\* C29: every step that takes the loop back to its head at the end of an
\* iteration, from _apply_delay or from the except clause, has just applied a
\* delay, and every delay applied in the iteration is strictly positive.
C29_NoBusyLoop ==
    [][(pc \in {"rotation", "refresh", "process", "delay", "except"} /\ pc' = "loop") =>
            /\ Len(slept') = Len(slept) + 1
            /\ \A i \in DOMAIN slept' : slept'[i] > 0]_vars

\* An iteration on a browser that was quit ended in the except clause and was
\* followed by a delay.
C29_Witness ==
    /\ pc = "loop"
    /\ Count(events, "MonitoringError") = 1
    /\ loop_driver \in quit_handles
    /\ slept # <<>>
    /\ slept[Len(slept)] > 0

\* C30 as stated: when the digest of the cycle's page could not be computed,
\* _get_page_hash returns None, and the comparison with the stored digest
\* takes neither the "unchanged" branch nor stores None as the last digest.
C30_MissingDigestIsUnknown ==
    (pc = "checked" /\ "_get_page_hash" \in browser.failing) =>
        /\ _get_page_hash(browser) = NoHash
        /\ Count(events, "NoChange") = 0
        /\ ~(Count(events, "ChangeDetected") > 0 /\ last_page.hash = NoHash)

-----------------------------------------------------------------------------
(* C31..C38 *)

\* A cycle of the digest-watching loop has just ended.
WatchCycleDone == pc = "reload" /\ events # <<>>

\* C31 as stated: a cycle entered in MONITORING that observes an UNAVAILABLE
\* page whose digest differs from the stored one logs "change detected",
\* leaves the state MONITORING and stores the digest; the cycle right after a
\* cycle in MONITORING, when it shows the same page, logs no "change
\* detected"; and after every cycle the stored digest is the digest of the
\* page that cycle observed.
C31_StoredDigestFollowsPage ==
    /\ [](WatchCycleDone =>
            /\ (/\ state_at_entry = "monitoring"
                /\ page_info.value.type = "unavailable"
                /\ digest_status.hash = "changed") =>
                    /\ events[Len(events)] = "ChangeDetected"
                    /\ state = "monitoring"
                    /\ last_page.hash = _get_page_hash(browser)
            /\ last_page.hash = _get_page_hash(browser))
    /\ [][(/\ WatchCycleDone
           /\ state_at_entry = "monitoring"
           /\ page_info.value.type = "unavailable"
           /\ browser' = [browser EXCEPT !.failing = browser'.failing]
           /\ page_info'.value.type = "unavailable") =>
                events'[Len(events')] # "ChangeDetected"]_vars

\* C32 as stated: a cycle that begins when the rotation of an earlier cycle
\* left the manager with a driver that is quit (the new one could not be
\* acquired) retries: its rotation step rotates the session again.
C32_NextCycleRetriesAcquiring ==
    [][(/\ pc = "rotation"
        /\ mgr_driver \in quit_handles
        /\ pc' \in {"refresh", "except"}) => RotatedThisCycle']_vars

\* What the operator sees or hears of a cycle, and the refresh of the page.
VisibleEvents == AlertEvents \cup {"PageRefresh"}

\* C33 as stated: once the stop flag is set no cycle begins and nothing more
\* happens: no event of a page refresh or an alert is added, and no page is
\* classified.
C33_NothingAfterInterrupt ==
    [][~running =>
            /\ pc' \notin {"rotation", "refresh", "process"}
            /\ \A e \in VisibleEvents : Count(events', e) <= Count(events, e)
            /\ page_info' \in {page_info, NoPageInfo}]_vars

\* MonitoringConfig and AntiDetectionConfig hold no option that makes the
\* monitor skip the navigation from the landing page.
SkipLandingPageConfigured == FALSE

\* The monitor is constructed and start() has not created the driver yet.
Constructed == pc = "start"

\* C34 as stated: a new monitor is in INITIAL, or in MONITORING when the
\* operator has configured it to skip the landing page.
C34_Original ==
    Constructed => \/ state = "initial"
                   \/ state = "monitoring" /\ SkipLandingPageConfigured

\* C34: a new monitor is in MONITORING, whatever the configuration switches.
C34_StartsInMonitoring ==
    Constructed => state = "monitoring"

\* A new monitor with session rotation and random delays switched off.
C34_Witness ==
    /\ Constructed
    /\ state = "monitoring"
    /\ ~enable_session_rotation
    /\ ~enable_random_delays
    /\ mgr_driver = "None"

\* C35 as stated: request_count is never negative and is the number of calls
\* of should_rotate_session since the last reset_session, whatever the
\* configuration.
C35_Original ==
    /\ request_count >= 0
    /\ request_count = calls_since_reset

\* C35: request_count is never negative; with session rotation enabled it is
\* the number of calls of should_rotate_session since the last reset_session,
\* and with session rotation disabled no call changes it: it stays 0.
C35_CountsCallsWhenEnabled ==
    /\ request_count >= 0
    /\ enable_session_rotation => request_count = calls_since_reset
    /\ ~enable_session_rotation => request_count = 0

\* Rotation is enabled and the calls went past the interval without a reset.
C35_Witness ==
    /\ enable_session_rotation
    /\ calls_since_reset = RotationInterval + 1
    /\ request_count = RotationInterval + 1

-----------------------------------------------------------------------------
(* The monitor in front of the slot picker: the driver is created, every   *)
(* rotation succeeds, and every page a cycle reads is the slot-picker page *)
(* without the "no slot" phrase.  Rotations fall due by the request count. *)
(* The loop is a sequential program whose every step ends, so it keeps     *)
(* taking steps.                                                           *)

\* The slot-picker page, read without failure, with free slots.
SlotBrowsers ==
    { d \in MonitorBrowsers : /\ d.failing = {}
                              /\ SlotPickerTitle(d.title)
                              /\ ~NoSlotPage(d)
                              /\ Observed[d].info.value.type = "unavailable" }

\* start() with a setup_driver that succeeds.
StartOk == Start /\ pc' = "loop"

\* _handle_session_rotation when nothing in it raises.
HandleSessionRotationOk ==
    /\ HandleSessionRotation
    /\ pc' = "refresh"
    /\ mgr_driver' \notin quit_handles'

\* _process_current_page on the slot-picker page.
ProcessSlotPage == ProcessCurrentPage /\ browser' \in SlotBrowsers

NextSlots ==
    \/ StartOk
    \/ LoopStart
    \/ HandleSessionRotationOk
    \/ HandlePageRefresh
    \/ ProcessSlotPage
    \/ ApplyDelay

InitSlots == Init /\ enable_session_rotation

SpecSlots == InitSlots /\ [][NextSlots]_vars /\ WF_vars(NextSlots)

\* C36 as stated: when every cycle reads the slot-picker page without the "no
\* slot" phrase, then from the head of the loop in any state but CAPTCHA_WAIT,
\* INITIAL after a rotation included, a SlotsAvailable alert is eventually
\* emitted.
C36_SlotsEventuallyReported ==
    (pc = "loop" /\ state # "captcha_wait") ~> (Count(events, "SlotsAvailable") > 0)

\* The state when _handle_page_type was called in the cycle: MONITORING when
\* the cycle began in CAPTCHA_WAIT and the page was no CAPTCHA page, else the
\* state the cycle began in.
StateAtHandling ==
    IF captcha_completed(state_at_entry, page_info.value.type) THEN "monitoring"
    ELSE state_at_entry

\* C37: the state becomes AVAILABLE only in the handling of a page, and only
\* when the state at the handling step is MONITORING; a SlotsAvailable alert
\* is emitted only in such a cycle; a page typed AVAILABLE that is handled in
\* INITIAL or NAVIGATING emits no alert and leaves the state as it was.
C37_AvailableOnlyFromMonitoring ==
    /\ [][(state' = "available" /\ state # "available") =>
                /\ pc = "process"
                /\ CycleProcessed'
                /\ StateAtHandling' = "monitoring"]_vars
    /\ []((CycleProcessed /\ Count(events, "SlotsAvailable") > 0) =>
                StateAtHandling = "monitoring")
    /\ []((/\ CycleProcessed
           /\ page_info.value.type = "available"
           /\ state_at_entry \in {"initial", "navigating"}) =>
                /\ \A e \in AlertEvents : Count(events, e) = 0
                /\ state = state_at_entry)

\* After a rotation the page is typed AVAILABLE by its keywords and handled in
\* INITIAL: nothing is reported.
C37_Witness ==
    /\ CycleProcessed
    /\ page_info.value.type = "available"
    /\ state_at_entry = "initial"
    /\ state = "initial"
    /\ events = <<"SessionRotated", "PageRefresh">>

\* C38 as stated: no browser call goes to a driver that was quit.  The driver
\* the loop is about to refresh or to read the page from has not been quit;
\* neither has the driver of a handler that goes on after an interrupt, nor
\* the driver on which the driver.get of a rotation raised.
C38_NoOperationOnQuitHandle ==
    /\ (pc = "refresh" /\ state \notin {"captcha_wait", "available"}) =>
            loop_driver \notin quit_handles
    /\ pc \in {"process", "swallowed"} => loop_driver \notin quit_handles
    /\ pc = "except" => mgr_driver \notin quit_handles

====
